---- MODULE Spec2Model ----
(***************************************************************************)
(* Chkobba Signal: two browser app instances (App.tsx) that negotiate a    *)
(* WebRTC peer connection through a public MQTT relay (cloud mode) or by   *)
(* copy/paste of compressed descriptors (manual mode), persist a session   *)
(* record in localStorage, and exchange strokes over a data channel.       *)
(*                                                                         *)
(* Every app instance a \in Apps has its React state (view, status, ...),  *)
(* its refs (pcRef, dataChannelRef, mqttClientRef), its localStorage and   *)
(* the continuations of its async handlers and timers (tasks).  Peer       *)
(* connections and relay clients are kept in per-app lists so that a       *)
(* closure that captured an old object still refers to that object.        *)
(***************************************************************************)
EXTENDS Integers, Sequences, FiniteSets, TLC

Apps == {"A", "B"}

Other(a) == IF a = "A" THEN "B" ELSE "A"

\* ---- bounds of the model ------------------------------------------------
\* peer connections (and relay clients) one app instance creates in a run
MaxPC == 2
\* messages a third party publishes on the public relay in a run
MaxInject == 2
\* page reloads of one app instance in a run
MaxReload == 1
\* clock ticks (hours) in a run
MaxTime == 2
\* strokes drawn, boards cleared and pings triggered in a run
MaxStrokes == 2
\* messages in flight on the data channel
MaxWire == 2
\* continuations one app instance has pending when the user clicks again
MaxTasks == 1

\* ---- values -------------------------------------------------------------
\* A session descriptor: type offer/answer, the app and peer connection
\* that created it.  type "null" is the JS value null.
Desc(t, a, i) == [type |-> t, app |-> a, id |-> i]

\* descriptors of different page loads differ: the identity of connection
\* i created by the page that is load number n
PcId(n, i) == n * 100 + i

NullDesc == Desc("null", "-", 0)

\* RTCPeerConnection as constructed by initPC
\* (nOff, nAns count the offers and answers applied as remote description)
NewPc == [sig |-> "stable", conn |-> "new", local |-> NullDesc,
          remote |-> NullDesc, dc |-> "none", nOff |-> 0, nAns |-> 0]

\* A payload on the relay: JSON text of a value, or text that is not JSON
JSONstringify(d) == [fmt |-> "json", val |-> d]

PlainText == [fmt |-> "text", val |-> NullDesc]

\* JSON.parse: throws (ok = FALSE) on text that is not JSON
JSONparse(p) == IF p.fmt = "json" THEN [ok |-> TRUE, val |-> p.val]
                ELSE [ok |-> FALSE, val |-> NullDesc]

\* Texts of the manual mode (localOffer, remoteAnswer): empty, an
\* LZ-compressed base64 descriptor, or text that is no such code
EmptyText == [enc |-> "empty", val |-> NullDesc]

\* LZString.compressToBase64(JSON.stringify(desc))
CompressToBase64(p) == [enc |-> "lz", val |-> p.val]

\* pasted text for which decompressFromBase64 returns null
JunkNull == [enc |-> "junknull", val |-> NullDesc]

\* pasted text for which decompressFromBase64 returns a non-JSON string
JunkText == [enc |-> "junktext", val |-> NullDesc]

\* LZString.decompressFromBase64 followed by JSON.parse: JSON.parse(null)
\* is the value null, JSON.parse of "" or of garbage throws
DecompressParse(t) ==
  CASE t.enc = "lz" -> JSONparse(JSONstringify(t.val))
    [] t.enc = "junknull" -> JSONparse(JSONstringify(NullDesc))
    [] OTHER -> JSONparse(PlainText)

NoSession == [mode |-> "NONE", role |-> "NONE", code |-> "", timestamp |-> 0]

\* a text under the key chkobba_session on which JSON.parse throws
BrokenSession == [mode |-> "UNPARSABLE", role |-> "NONE", code |-> "", timestamp |-> 0]

NoManual == [present |-> FALSE, localOffer |-> EmptyText, remoteAnswer |-> EmptyText]

\* the room codes Math.random can produce for a host, and the texts a user
\* types in the join field
HostCodes == {"1234"}

InputCodes == {"1234", "12ab"}

\* the texts of the model that are 4 decimal digits
DecimalCodes == {"1234"}

\* 2 * 60 * 60 * 1000 ms, in hours (the unit of now)
SessionMaxAge == 2

\* Service worker: the resources it sees (an asset of the page, an asset of a
\* CDN), the request methods, what the network does with a request (an HTTP
\* status, or 0 when the fetch fails) and the versions a resource goes through.
MaxVersion == 2
Urls == {"./index.html", "https://cdn.tailwindcss.com"}
Methods == {"GET", "POST"}
NetOutcomes == {200, 404, 0}
Undefined == [status |-> 0, type |-> "undefined", body |-> 0]
ResponseType(u) == IF u = "./index.html" THEN "basic" ELSE "cors"
NoWorker ==
  [cache |-> [u \in Urls |-> Undefined],
   server |-> [u \in Urls |-> 1],
   last |-> [url |-> "./index.html", intercepted |-> FALSE, hit |-> FALSE,
             net |-> 0, resp |-> Undefined]]

\* DrawingBoard: a point of the canvas, the longest path of one gesture, and
\* the board as mounted (isDrawing false, currentPath empty)
MaxPoints == 2
Pt == [x |-> 0, y |-> 0]
NoBoard == [isDrawing |-> FALSE, currentPath |-> <<>>]

VARIABLES
  view, status, errorMsg, shortCode, inputCode, localOffer, remoteAnswer,
  flash, strokes, isReconnecting,
  pcs, pcRef, dataChannelRef, clients, mqttClientRef,
  storage, tasks, restoreTimer, visClosure,
  inbox, wire, now, sw, board,
  published, unhandled, injected, reloads, drawn, crossed, submitted

uiVars == <<view, status, errorMsg, shortCode, inputCode, localOffer,
            remoteAnswer, flash, strokes, isReconnecting>>

rtcVars == <<pcs, pcRef, dataChannelRef>>

mqttVars == <<clients, mqttClientRef, inbox>>

ghostVars == <<published, unhandled, injected, reloads, drawn, crossed, submitted>>

vars == <<uiVars, rtcVars, mqttVars, storage, tasks, restoreTimer,
          visClosure, wire, now, sw, board, ghostVars>>

\* The response the network gives for u with the given status.
NetworkResponse(u, st) ==
  [status |-> st, type |-> ResponseType(u), body |-> sw.server[u]]

\* sw.js: networkResponse && status === 200 && type === 'basic'.
Cacheable(r) == r # Undefined /\ r.status = 200 /\ r.type = "basic"


\* ---- helpers ------------------------------------------------------------
RemoveAt(s, i) == SubSeq(s, 1, i - 1) \o SubSeq(s, i + 1, Len(s))

\* RTCPeerConnection.close(): the connection and its data channel close
ClosedPc(p) == [p EXCEPT !.sig = "closed", !.conn = "closed",
                         !.dc = IF @ = "none" THEN "none" ELSE "closed"]

ClosePcAt(ps, i) == IF i = 0 THEN ps ELSE [ps EXCEPT ![i] = ClosedPc(@)]

\* client.end(): the client leaves the relay
EndClientAt(cs, c) == IF c = 0 THEN cs ELSE [cs EXCEPT ![c].st = "ended"]

\* messages of an ended client are not delivered any more
DropClient(inb, c) == SelectSeq(inb, LAMBDA m : m.cl # c)

\* the relay hands a published message to every connected client that
\* subscribed to chkobba/<code>/<kind>
Subscribers(cls, b, code, kind) ==
  {c \in 1..Len(cls[b]) : /\ cls[b][c].st = "connected"
                          /\ cls[b][c].code = code
                          /\ kind \in cls[b][c].subs}

RECURSIVE AppendAll(_, _, _)
AppendAll(q, cset, m) ==
  IF cset = {} THEN q
  ELSE LET c == CHOOSE x \in cset : \A y \in cset : x <= y
       IN AppendAll(Append(q, [m EXCEPT !.cl = c]), cset \ {c}, m)

Deliver(inb, cls, code, kind, payload) ==
  [b \in Apps |->
     AppendAll(inb[b], Subscribers(cls, b, code, kind),
               [cl |-> 0, kind |-> kind, payload |-> payload])]

\* client.publish(topic, payload) on client c of app a: nothing leaves a
\* client that is not connected
Publish(inb, cls, a, c, kind, payload) ==
  IF cls[a][c].st = "connected"
  THEN Deliver(inb, cls, cls[a][c].code, kind, payload)
  ELSE inb

PublishLog(cls, a, c, kind) ==
  IF cls[a][c].st = "connected" THEN published \cup {<<kind, a>>} ELSE published

\* the effect [view] re-runs when the view changes in a commit, and its
\* visibility handler then closes over the isReconnecting of that render
VisUpdate(a) ==
  visClosure' = [visClosure EXCEPT ![a] =
                   IF view'[a] # view[a] THEN isReconnecting'[a] ELSE @]

\* ---- initial state: both pages loaded with empty storage ----------------
Init ==
  /\ view = [a \in Apps |-> "HOME"]
  /\ status = [a \in Apps |-> ""]
  /\ errorMsg = [a \in Apps |-> ""]
  /\ shortCode = [a \in Apps |-> ""]
  /\ inputCode = [a \in Apps |-> ""]
  /\ localOffer = [a \in Apps |-> EmptyText]
  /\ remoteAnswer = [a \in Apps |-> EmptyText]
  /\ flash = [a \in Apps |-> FALSE]
  /\ strokes = [a \in Apps |-> <<>>]
  /\ isReconnecting = [a \in Apps |-> FALSE]
  /\ pcs = [a \in Apps |-> <<>>]
  /\ pcRef = [a \in Apps |-> 0]
  /\ dataChannelRef = [a \in Apps |-> 0]
  /\ clients = [a \in Apps |-> <<>>]
  /\ mqttClientRef = [a \in Apps |-> 0]
  /\ storage = [a \in Apps |-> [session |-> NoSession, manual |-> NoManual]]
  /\ tasks = [a \in Apps |-> <<>>]
  /\ restoreTimer = [a \in Apps |-> NoSession]
  /\ visClosure = [a \in Apps |-> FALSE]
  /\ inbox = [a \in Apps |-> <<>>]
  /\ wire = [a \in Apps |-> <<>>]
  /\ now = 0
  /\ sw = NoWorker
  /\ board = [a \in Apps |-> NoBoard]
  /\ published = {}
  /\ unhandled = [a \in Apps |-> FALSE]
  /\ injected = 0
  /\ reloads = [a \in Apps |-> 0]
  /\ drawn = <<>>
  /\ crossed = FALSE
  /\ submitted = [a \in Apps |-> "none"]

\* ---- session storage ----------------------------------------------------
\* saveSession(mode, role, code)
SaveSession(st, mode, role, code) ==
  [st EXCEPT !.session = [mode |-> mode, role |-> role, code |-> code,
                          timestamp |-> now]]

\* clearSession()
ClearSession(st) == [session |-> NoSession, manual |-> NoManual]

\* ---- WebRTC setup -------------------------------------------------------
\* an initPC that does not close the connection held before
InitPCKeepsOld(a, withChannel) ==
  Append(pcs[a], [NewPc EXCEPT !.dc = IF withChannel THEN "connecting" ELSE "none"])

\* initPC(): close the held connection, construct a new one, hold it
InitPC(a, withChannel) ==
  Append(ClosePcAt(pcs[a], pcRef[a]),
         [NewPc EXCEPT !.dc = IF withChannel THEN "connecting" ELSE "none"])

\* the messages in flight on a data channel are lost when it closes
WireAfterClose(a) ==
  IF pcRef[a] # 0 /\ pcs[a][pcRef[a]].dc = "open"
  THEN [b \in Apps |-> <<>>] ELSE wire

\* ---- cloud mode ---------------------------------------------------------
\* a connectCloudHost that leaves the GAME view alone, as connectCloudJoiner does
ConnectCloudHostKeepsGame(a, code, rec) ==
  /\ Len(pcs[a]) < MaxPC
  /\ view' = [view EXCEPT ![a] = IF @ # "GAME" THEN "HOST_LOBBY" ELSE @]
  /\ status' = [status EXCEPT ![a] =
                  IF rec THEN "Reconnecting..." ELSE "Initializing Host..."]
  /\ pcs' = [pcs EXCEPT ![a] = InitPC(a, TRUE)]
  /\ pcRef' = [pcRef EXCEPT ![a] = Len(pcs[a]) + 1]
  /\ dataChannelRef' = [dataChannelRef EXCEPT ![a] = Len(pcs[a]) + 1]
  /\ wire' = WireAfterClose(a)
  /\ clients' = [clients EXCEPT ![a] =
                   Append(EndClientAt(@, mqttClientRef[a]),
                          [role |-> "HOST", code |-> code,
                           pc |-> Len(pcs[a]) + 1, rec |-> rec,
                           st |-> "connecting", subs |-> {}, joins |-> 0,
                           answers |-> 0])]
  /\ mqttClientRef' = [mqttClientRef EXCEPT ![a] = Len(clients[a]) + 1]
  /\ inbox' = [inbox EXCEPT ![a] = DropClient(@, mqttClientRef[a])]

\* connectCloudHost(code), called from a closure whose isReconnecting is rec
ConnectCloudHost(a, code, rec) ==
  /\ Len(pcs[a]) < MaxPC
  /\ view' = [view EXCEPT ![a] = "HOST_LOBBY"]
  /\ status' = [status EXCEPT ![a] =
                  IF rec THEN "Reconnecting..." ELSE "Initializing Host..."]
  /\ pcs' = [pcs EXCEPT ![a] = InitPC(a, TRUE)]
  /\ pcRef' = [pcRef EXCEPT ![a] = Len(pcs[a]) + 1]
  /\ dataChannelRef' = [dataChannelRef EXCEPT ![a] = Len(pcs[a]) + 1]
  /\ wire' = WireAfterClose(a)
  /\ clients' = [clients EXCEPT ![a] =
                   Append(EndClientAt(@, mqttClientRef[a]),
                          [role |-> "HOST", code |-> code,
                           pc |-> Len(pcs[a]) + 1, rec |-> rec,
                           st |-> "connecting", subs |-> {}, joins |-> 0,
                           answers |-> 0])]
  /\ mqttClientRef' = [mqttClientRef EXCEPT ![a] = Len(clients[a]) + 1]
  /\ inbox' = [inbox EXCEPT ![a] = DropClient(@, mqttClientRef[a])]

\* connectCloudJoiner(code), called from a closure whose view is v and
\* whose isReconnecting is rec
ConnectCloudJoiner(a, code, v, rec) ==
  /\ Len(pcs[a]) < MaxPC
  /\ view' = [view EXCEPT ![a] = IF v # "GAME" THEN "JOIN_LOBBY" ELSE @]
  /\ status' = [status EXCEPT ![a] =
                  IF rec THEN "Reconnecting..." ELSE "Connecting to Cloud..."]
  /\ pcs' = [pcs EXCEPT ![a] = InitPC(a, FALSE)]
  /\ pcRef' = [pcRef EXCEPT ![a] = Len(pcs[a]) + 1]
  /\ dataChannelRef' = dataChannelRef
  /\ wire' = WireAfterClose(a)
  /\ clients' = [clients EXCEPT ![a] =
                   Append(EndClientAt(@, mqttClientRef[a]),
                          [role |-> "JOINER", code |-> code,
                           pc |-> Len(pcs[a]) + 1, rec |-> rec,
                           st |-> "connecting", subs |-> {}, joins |-> 0,
                           answers |-> 0])]
  /\ mqttClientRef' = [mqttClientRef EXCEPT ![a] = Len(clients[a]) + 1]
  /\ inbox' = [inbox EXCEPT ![a] = DropClient(@, mqttClientRef[a])]

\* startCloudHost: the "Start New Game (Host)" button of the HOME view
StartCloudHost(a) ==
  /\ view[a] = "HOME"
  /\ \E code \in HostCodes :
       /\ shortCode' = [shortCode EXCEPT ![a] = code]
       /\ storage' = [storage EXCEPT ![a] = SaveSession(@, "CLOUD", "HOST", code)]
       /\ ConnectCloudHost(a, code, isReconnecting[a])
  /\ UNCHANGED <<errorMsg, inputCode, localOffer, remoteAnswer, flash, strokes,
                 isReconnecting, tasks, restoreTimer, now, sw, board, ghostVars>>
  /\ VisUpdate(a)

\* onChange of the code field of the HOME view
TypeInputCode(a) ==
  /\ view[a] = "HOME"
  /\ \E c \in InputCodes :
       /\ c # inputCode[a]
       /\ inputCode' = [inputCode EXCEPT ![a] = c]
  /\ UNCHANGED <<view, status, errorMsg, shortCode, localOffer, remoteAnswer,
                 flash, strokes, isReconnecting, rtcVars, mqttVars, storage,
                 tasks, restoreTimer, visClosure, wire, now, sw, board, ghostVars>>

\* joinCloudGame: the "Join Game" button of the HOME view
JoinCloudGame(a) ==
  /\ view[a] = "HOME"
  /\ Len(inputCode[a]) = 4
  /\ storage' = [storage EXCEPT ![a] =
                   SaveSession(@, "CLOUD", "JOINER", inputCode[a])]
  /\ ConnectCloudJoiner(a, inputCode[a], view[a], isReconnecting[a])
  /\ UNCHANGED <<errorMsg, shortCode, inputCode, localOffer, remoteAnswer, flash,
                 strokes, isReconnecting, tasks, restoreTimer, now, sw, board, ghostVars>>
  /\ VisUpdate(a)

\* (joins and answers of a client record count the join/restart and the
\* answer messages its message handler has been called with)
\* a pending continuation of an async handler, or a timer: the step k that
\* runs next, the peer connection and relay client its closure captured,
\* and the descriptor it carries
Task(k, pc, cl, d) == [k |-> k, pc |-> pc, cl |-> cl, d |-> d]

\* HostOnConnect with the offer published from the connect handler, before
\* any join has been received
HostOnConnectEager(a, c) ==
  /\ clients[a][c].st = "connecting"
  /\ clients[a][c].role = "HOST"
  /\ status' = [status EXCEPT ![a] = "Waiting for player..."]
  /\ LET cls == [clients EXCEPT ![a][c].st = "connected",
                                ![a][c].subs = {"join", "answer"}]
     IN /\ clients' = cls
        /\ inbox' = Publish(inbox, cls, a, c, "offer",
                            JSONstringify(pcs[a][clients[a][c].pc].local))
        /\ published' = PublishLog(cls, a, c, "offer")
  /\ tasks' = [tasks EXCEPT ![a] =
                 Append(@, Task("hostOffer", clients[a][c].pc, c, NullDesc))]
  /\ UNCHANGED <<view, errorMsg, shortCode, inputCode, localOffer, remoteAnswer,
                 flash, strokes, isReconnecting, rtcVars, mqttClientRef,
                 storage, restoreTimer, visClosure, wire, now, sw, board, unhandled,
                 injected, reloads, drawn, crossed, submitted>>

\* client.on('connect') of connectCloudHost, up to its first await
HostOnConnect(a, c) ==
  /\ clients[a][c].st = "connecting"
  /\ clients[a][c].role = "HOST"
  /\ status' = [status EXCEPT ![a] = "Waiting for player..."]
  /\ clients' = [clients EXCEPT ![a][c].st = "connected",
                                ![a][c].subs = {"join", "answer"}]
  /\ tasks' = [tasks EXCEPT ![a] =
                 Append(@, Task("hostOffer", clients[a][c].pc, c, NullDesc))]
  /\ UNCHANGED <<view, errorMsg, shortCode, inputCode, localOffer, remoteAnswer,
                 flash, strokes, isReconnecting, rtcVars, mqttClientRef, inbox,
                 storage, restoreTimer, visClosure, wire, now, sw, board, ghostVars>>

\* client.on('connect') of connectCloudHost after createOffer and
\* setLocalDescription: both reject on a closed connection, and the handler
\* has no catch
HostOfferSet(a, i) ==
  /\ i \in 1..Len(tasks[a])
  /\ tasks[a][i].k = "hostOffer"
  /\ LET t == tasks[a][i]
         p == pcs[a][t.pc]
     IN IF p.sig = "closed"
        THEN /\ unhandled' = [unhandled EXCEPT ![a] = TRUE]
             /\ UNCHANGED <<pcs, inbox, published>>
        ELSE /\ pcs' = [pcs EXCEPT ![a][t.pc].sig = "have-local-offer",
                                   ![a][t.pc].local = Desc("offer", a, PcId(reloads[a], t.pc))]
             /\ IF clients[a][t.cl].rec
                THEN /\ inbox' = Publish(inbox, clients, a, t.cl, "restart", PlainText)
                     /\ published' = PublishLog(clients, a, t.cl, "restart")
                ELSE UNCHANGED <<inbox, published>>
             /\ UNCHANGED unhandled
  /\ tasks' = [tasks EXCEPT ![a] = RemoveAt(@, i)]
  /\ UNCHANGED <<uiVars, pcRef, dataChannelRef, clients, mqttClientRef, storage,
                 restoreTimer, visClosure, wire, now, sw, board, injected, reloads, drawn, crossed, submitted>>

\* the message at the head of the inbox of app a, if it is for a client
\* with this role and of one of these kinds
HeadIs(a, role, kinds) ==
  /\ inbox[a] # <<>>
  /\ clients[a][Head(inbox[a]).cl].role = role
  /\ Head(inbox[a]).kind \in kinds

\* client.on('message') of connectCloudHost, topic .../join or .../restart
HostOnJoin(a) ==
  /\ HeadIs(a, "HOST", {"join", "restart"})
  /\ LET c == Head(inbox[a]).cl
         offer == JSONstringify(pcs[a][clients[a][c].pc].local)
         cls == [clients EXCEPT ![a][c].joins = 1]
     IN /\ clients' = cls
        /\ inbox' = Publish([inbox EXCEPT ![a] = Tail(@)], cls, a, c, "offer", offer)
        /\ published' = PublishLog(cls, a, c, "offer")
  /\ status' = [status EXCEPT ![a] = "Sending Offer..."]
  /\ UNCHANGED <<view, errorMsg, shortCode, inputCode, localOffer, remoteAnswer,
                 flash, strokes, isReconnecting, rtcVars, mqttClientRef, storage,
                 tasks, restoreTimer, visClosure, wire, now, sw, board, unhandled, injected,
                 reloads, drawn, crossed, submitted>>

\* client.on('message') of connectCloudHost, topic .../answer, up to the
\* await: JSON.parse inside try, then the have-local-offer guard
HostOnAnswer(a) ==
  /\ HeadIs(a, "HOST", {"answer"})
  /\ LET m == Head(inbox[a])
         r == JSONparse(m.payload)
         p == clients[a][m.cl].pc
     IN tasks' = [tasks EXCEPT ![a] =
                    IF r.ok /\ pcs[a][p].sig = "have-local-offer"
                    THEN Append(@, Task("hostSRD", p, m.cl, r.val))
                    ELSE @]
  /\ inbox' = [inbox EXCEPT ![a] = Tail(@)]
  /\ clients' = [clients EXCEPT ![a][Head(inbox[a]).cl].answers = @ + 1]
  /\ UNCHANGED <<uiVars, rtcVars, mqttClientRef, storage, restoreTimer,
                 visClosure, wire, now, sw, board, ghostVars>>

\* HostAnswerSettled with setStatus('Connecting P2P...') outside the guard
HostAnswerSettledStatusAlways(a, i) ==
  /\ i \in 1..Len(tasks[a])
  /\ tasks[a][i].k = "hostSRD"
  /\ LET t == tasks[a][i]
         p == pcs[a][t.pc]
     IN IF p.sig = "have-local-offer" /\ t.d.type = "answer"
        THEN pcs' = [pcs EXCEPT ![a][t.pc].sig = "stable",
                                ![a][t.pc].remote = t.d,
                                ![a][t.pc].nAns = @ + 1]
        ELSE UNCHANGED pcs
  /\ status' = [status EXCEPT ![a] = "Connecting P2P..."]
  /\ tasks' = [tasks EXCEPT ![a] = RemoveAt(@, i)]
  /\ UNCHANGED <<view, errorMsg, shortCode, inputCode, localOffer, remoteAnswer,
                 flash, strokes, isReconnecting, pcRef, dataChannelRef, mqttVars,
                 storage, restoreTimer, visClosure, wire, now, sw, board, ghostVars>>

\* setRemoteDescription(answer) settles: the connection takes an answer only
\* in have-local-offer, and rejects null; the rejection is caught and logged
HostAnswerSettled(a, i) ==
  /\ i \in 1..Len(tasks[a])
  /\ tasks[a][i].k = "hostSRD"
  /\ LET t == tasks[a][i]
         p == pcs[a][t.pc]
     IN IF p.sig = "have-local-offer" /\ t.d.type = "answer"
        THEN /\ pcs' = [pcs EXCEPT ![a][t.pc].sig = "stable",
                                   ![a][t.pc].remote = t.d,
                                   ![a][t.pc].nAns = @ + 1]
             /\ status' = [status EXCEPT ![a] = "Connecting P2P..."]
        ELSE UNCHANGED <<pcs, status>>
  /\ tasks' = [tasks EXCEPT ![a] = RemoveAt(@, i)]
  /\ UNCHANGED <<view, errorMsg, shortCode, inputCode, localOffer, remoteAnswer,
                 flash, strokes, isReconnecting, pcRef, dataChannelRef, mqttVars,
                 storage, restoreTimer, visClosure, wire, now, sw, board, ghostVars>>

\* client.on('connect') of connectCloudJoiner
JoinerOnConnect(a, c) ==
  /\ clients[a][c].st = "connecting"
  /\ clients[a][c].role = "JOINER"
  /\ status' = [status EXCEPT ![a] = "Looking for room..."]
  /\ LET cls == [clients EXCEPT ![a][c].st = "connected",
                                ![a][c].subs = {"offer", "restart"}]
     IN /\ clients' = cls
        /\ inbox' = Publish(inbox, cls, a, c, "join", PlainText)
        /\ published' = PublishLog(cls, a, c, "join")
  /\ UNCHANGED <<view, errorMsg, shortCode, inputCode, localOffer, remoteAnswer,
                 flash, strokes, isReconnecting, rtcVars, mqttClientRef, storage,
                 tasks, restoreTimer, visClosure, wire, now, sw, board, unhandled, injected,
                 reloads, drawn, crossed, submitted>>

\* client.on('message') of connectCloudJoiner, topic .../restart
JoinerOnRestart(a) ==
  /\ HeadIs(a, "JOINER", {"restart"})
  /\ LET c == Head(inbox[a]).cl
     IN /\ inbox' = Publish([inbox EXCEPT ![a] = Tail(@)], clients, a, c,
                            "join", PlainText)
        /\ published' = PublishLog(clients, a, c, "join")
  /\ UNCHANGED <<uiVars, rtcVars, clients, mqttClientRef, storage, tasks,
                 restoreTimer, visClosure, wire, now, sw, board, unhandled, injected,
                 reloads, drawn, crossed, submitted>>

\* client.on('message') of connectCloudJoiner, topic .../offer, up to the
\* first await: setStatus, then JSON.parse outside any try
JoinerOnOffer(a) ==
  /\ HeadIs(a, "JOINER", {"offer"})
  /\ status' = [status EXCEPT ![a] = "Found Host. Processing..."]
  /\ LET m == Head(inbox[a])
         r == JSONparse(m.payload)
     IN IF r.ok
        THEN /\ tasks' = [tasks EXCEPT ![a] =
                            Append(@, Task("jSRD", clients[a][m.cl].pc, m.cl, r.val))]
             /\ UNCHANGED unhandled
        ELSE /\ unhandled' = [unhandled EXCEPT ![a] = TRUE]
             /\ UNCHANGED tasks
  /\ inbox' = [inbox EXCEPT ![a] = Tail(@)]
  /\ UNCHANGED <<view, errorMsg, shortCode, inputCode, localOffer, remoteAnswer,
                 flash, strokes, isReconnecting, rtcVars, clients, mqttClientRef,
                 storage, restoreTimer, visClosure, wire, now, sw, board, published,
                 injected, reloads, drawn, crossed, submitted>>

\* JoinerOfferSettled with a guard that works: an offer that finds the
\* connection not stable is dropped
JoinerOfferSettledGuarded(a, i) ==
  /\ i \in 1..Len(tasks[a])
  /\ tasks[a][i].k = "jSRD"
  /\ LET t == tasks[a][i]
         p == pcs[a][t.pc]
     IN IF p.sig = "stable" /\ t.d.type = "offer"
        THEN /\ pcs' = [pcs EXCEPT ![a][t.pc].sig = "have-remote-offer",
                                   ![a][t.pc].remote = t.d,
                                   ![a][t.pc].nOff = @ + 1]
             /\ tasks' = [tasks EXCEPT ![a][i].k = "jCreateAnswer"]
             /\ UNCHANGED unhandled
        ELSE /\ unhandled' = [unhandled EXCEPT ![a] = t.d.type # "offer"]
             /\ tasks' = [tasks EXCEPT ![a] = RemoveAt(@, i)]
             /\ UNCHANGED pcs
  /\ UNCHANGED <<uiVars, pcRef, dataChannelRef, mqttVars, storage, restoreTimer,
                 visClosure, wire, now, sw, board, published, injected, reloads, drawn, crossed, submitted>>

\* await pc.setRemoteDescription(offerDesc) settles: the connection takes
\* an offer in stable and in have-remote-offer, and rejects null and any
\* call on a closed connection
JoinerOfferSettled(a, i) ==
  /\ i \in 1..Len(tasks[a])
  /\ tasks[a][i].k = "jSRD"
  /\ LET t == tasks[a][i]
         p == pcs[a][t.pc]
     IN IF p.sig \in {"stable", "have-remote-offer"} /\ t.d.type = "offer"
        THEN /\ pcs' = [pcs EXCEPT ![a][t.pc].sig = "have-remote-offer",
                                   ![a][t.pc].remote = t.d,
                                   ![a][t.pc].nOff = @ + 1]
             /\ tasks' = [tasks EXCEPT ![a][i].k = "jCreateAnswer"]
             /\ UNCHANGED unhandled
        ELSE /\ unhandled' = [unhandled EXCEPT ![a] = TRUE]
             /\ tasks' = [tasks EXCEPT ![a] = RemoveAt(@, i)]
             /\ UNCHANGED pcs
  /\ UNCHANGED <<uiVars, pcRef, dataChannelRef, mqttVars, storage, restoreTimer,
                 visClosure, wire, now, sw, board, published, injected, reloads, drawn, crossed, submitted>>

\* await pc.createAnswer() settles: rejected unless have-remote-offer
JoinerAnswerCreated(a, i) ==
  /\ i \in 1..Len(tasks[a])
  /\ tasks[a][i].k = "jCreateAnswer"
  /\ LET t == tasks[a][i]
     IN IF pcs[a][t.pc].sig = "have-remote-offer"
        THEN /\ tasks' = [tasks EXCEPT ![a][i].k = "jSLD",
                                       ![a][i].d = Desc("answer", a, PcId(reloads[a], t.pc))]
             /\ UNCHANGED unhandled
        ELSE /\ unhandled' = [unhandled EXCEPT ![a] = TRUE]
             /\ tasks' = [tasks EXCEPT ![a] = RemoveAt(@, i)]
  /\ UNCHANGED <<uiVars, rtcVars, mqttVars, storage, restoreTimer, visClosure,
                 wire, now, sw, board, published, injected, reloads, drawn, crossed, submitted>>

\* await pc.setLocalDescription(answer) settles, and the 1000 ms timer is
\* set: an answer is taken as local description only in have-remote-offer
JoinerAnswerSet(a, i) ==
  /\ i \in 1..Len(tasks[a])
  /\ tasks[a][i].k = "jSLD"
  /\ LET t == tasks[a][i]
     IN IF pcs[a][t.pc].sig = "have-remote-offer"
        THEN /\ pcs' = [pcs EXCEPT ![a][t.pc].sig = "stable",
                                   ![a][t.pc].local = t.d]
             /\ tasks' = [tasks EXCEPT ![a][i].k = "jTimer"]
             /\ UNCHANGED unhandled
        ELSE /\ unhandled' = [unhandled EXCEPT ![a] = TRUE]
             /\ tasks' = [tasks EXCEPT ![a] = RemoveAt(@, i)]
             /\ UNCHANGED pcs
  /\ UNCHANGED <<uiVars, pcRef, dataChannelRef, mqttVars, storage, restoreTimer,
                 visClosure, wire, now, sw, board, published, injected, reloads, drawn, crossed, submitted>>

\* the 1000 ms timer of the offer handler fires: publish the answer
JoinerAnswerTimer(a, i) ==
  /\ i \in 1..Len(tasks[a])
  /\ tasks[a][i].k = "jTimer"
  /\ LET t == tasks[a][i]
     IN /\ inbox' = Publish(inbox, clients, a, t.cl, "answer",
                            JSONstringify(pcs[a][t.pc].local))
        /\ published' = PublishLog(clients, a, t.cl, "answer")
  /\ status' = [status EXCEPT ![a] = "Connecting P2P..."]
  /\ tasks' = [tasks EXCEPT ![a] = RemoveAt(@, i)]
  /\ UNCHANGED <<view, errorMsg, shortCode, inputCode, localOffer, remoteAnswer,
                 flash, strokes, isReconnecting, rtcVars, clients, mqttClientRef,
                 storage, restoreTimer, visClosure, wire, now, sw, board, unhandled,
                 injected, reloads, drawn, crossed, submitted>>

\* ---- the public relay: anybody can publish on a topic ----------------
\* what a third party "X" can publish on chkobba/<code>/<kind>
ForeignPayloads(kind) ==
  CASE kind = "offer" -> {JSONstringify(Desc("offer", "X", 1)),
                          JSONstringify(NullDesc), PlainText}
    [] kind = "answer" -> {JSONstringify(Desc("answer", "X", 1)),
                           JSONstringify(NullDesc), PlainText}
    [] OTHER -> {PlainText}

RelayInject ==
  /\ injected < MaxInject
  /\ injected' = injected + 1
  /\ \E code \in HostCodes, kind \in {"join", "restart", "offer", "answer"} :
       \E payload \in ForeignPayloads(kind) :
         /\ \E b \in Apps : Subscribers(clients, b, code, kind) # {}
         /\ inbox' = Deliver(inbox, clients, code, kind, payload)
         /\ published' = published \cup {<<kind, "X">>}
  /\ UNCHANGED <<uiVars, rtcVars, clients, mqttClientRef, storage, tasks,
                 restoreTimer, visClosure, wire, now, sw, board, unhandled, reloads, drawn, crossed, submitted>>

\* ---- the peer connection's events -----------------------------------
\* connection i of app a and connection j of the other app hold the same
\* offer/answer pair, so the browsers can complete the network path
Paired(a, i, j) ==
  LET p == pcs[a][i]
      q == pcs[Other(a)][j]
  IN /\ p.sig = "stable" /\ q.sig = "stable"
     /\ p.local.type # "null" /\ q.local.type # "null"
     /\ p.remote = q.local /\ q.remote = p.local

HasPair(a, i) == \E j \in 1..Len(pcs[Other(a)]) : Paired(a, i, j)

\* a 'connected' callback that leaves the relay client running
PcConnectedKeepsRelay(a, i) ==
  /\ i \in 1..Len(pcs[a])
  /\ pcs[a][i].conn \in {"new", "disconnected"}
  /\ HasPair(a, i)
  /\ pcs' = [pcs EXCEPT ![a][i].conn = "connected"]
  /\ status' = [status EXCEPT ![a] = "Connected"]
  /\ view' = [view EXCEPT ![a] = "GAME"]
  /\ isReconnecting' = [isReconnecting EXCEPT ![a] = FALSE]
  /\ UNCHANGED <<errorMsg, shortCode, inputCode, localOffer, remoteAnswer, flash,
                 strokes, pcRef, dataChannelRef, mqttVars, storage, tasks,
                 restoreTimer, wire, now, sw, board, ghostVars>>
  /\ VisUpdate(a)

\* pc.onconnectionstatechange with connectionState 'connected'
PcConnected(a, i) ==
  /\ i \in 1..Len(pcs[a])
  /\ pcs[a][i].conn \in {"new", "disconnected"}
  /\ HasPair(a, i)
  /\ pcs' = [pcs EXCEPT ![a][i].conn = "connected"]
  /\ status' = [status EXCEPT ![a] = "Connected"]
  /\ view' = [view EXCEPT ![a] = "GAME"]
  /\ isReconnecting' = [isReconnecting EXCEPT ![a] = FALSE]
  /\ clients' = [clients EXCEPT ![a] = EndClientAt(@, mqttClientRef[a])]
  /\ inbox' = [inbox EXCEPT ![a] = DropClient(@, mqttClientRef[a])]
  /\ UNCHANGED <<errorMsg, shortCode, inputCode, localOffer, remoteAnswer, flash,
                 strokes, pcRef, dataChannelRef, mqttClientRef, storage, tasks,
                 restoreTimer, wire, now, sw, board, ghostVars>>
  /\ VisUpdate(a)

\* a channel.onopen that sends the strokes the app holds to the peer
ChannelOpenResync(a, i) ==
  /\ i \in 1..Len(pcs[a])
  /\ pcs[a][i].conn = "connected"
  /\ pcs[a][i].dc \in {"none", "connecting"}
  /\ HasPair(a, i)
  /\ pcs' = [pcs EXCEPT ![a][i].dc = "open"]
  /\ dataChannelRef' = [dataChannelRef EXCEPT ![a] =
                          IF pcs[a][i].dc = "none" THEN i ELSE @]
  /\ status' = [status EXCEPT ![a] = "Connected"]
  /\ view' = [view EXCEPT ![a] = "GAME"]
  /\ wire' = [wire EXCEPT ![Other(a)] =
                @ \o [k \in 1..Len(strokes[a]) |->
                        JSONstringify([type |-> "SYNC_STROKE",
                                       stroke |-> strokes[a][k]])]]
  /\ UNCHANGED <<errorMsg, shortCode, inputCode, localOffer, remoteAnswer, flash,
                 strokes, isReconnecting, pcRef, mqttVars, storage, tasks,
                 restoreTimer, now, sw, board, ghostVars>>
  /\ VisUpdate(a)

\* the data channel of connection i opens: channel.onopen, preceded on the
\* answering side by pc.ondatachannel -> setupDataChannel(e.channel)
ChannelOpen(a, i) ==
  /\ i \in 1..Len(pcs[a])
  /\ pcs[a][i].conn = "connected"
  /\ pcs[a][i].dc \in {"none", "connecting"}
  /\ HasPair(a, i)
  /\ pcs' = [pcs EXCEPT ![a][i].dc = "open"]
  /\ dataChannelRef' = [dataChannelRef EXCEPT ![a] =
                          IF pcs[a][i].dc = "none" THEN i ELSE @]
  /\ status' = [status EXCEPT ![a] = "Connected"]
  /\ view' = [view EXCEPT ![a] = "GAME"]
  /\ UNCHANGED <<errorMsg, shortCode, inputCode, localOffer, remoteAnswer, flash,
                 strokes, isReconnecting, pcRef, mqttVars, storage, tasks,
                 restoreTimer, wire, now, sw, board, ghostVars>>
  /\ VisUpdate(a)

\* ---- manual mode --------------------------------------------------------
ManualViews == {"MANUAL_HOST", "MANUAL_JOIN"}

\* a save effect that backs the texts up in every view
ManualEffectAnyView(a, st) ==
  IF <<localOffer'[a], remoteAnswer'[a], view'[a]>>
       # <<localOffer[a], remoteAnswer[a], view[a]>>
  THEN [st EXCEPT !.manual = [present |-> TRUE, localOffer |-> localOffer'[a],
                              remoteAnswer |-> remoteAnswer'[a]]]
  ELSE st

\* the effect [localOffer, remoteAnswer, view]: after a commit that changed
\* one of them, in a manual view, back up both texts
ManualEffect(a, st) ==
  IF /\ view'[a] \in ManualViews
     /\ <<localOffer'[a], remoteAnswer'[a], view'[a]>>
          # <<localOffer[a], remoteAnswer[a], view[a]>>
  THEN [st EXCEPT !.manual = [present |-> TRUE, localOffer |-> localOffer'[a],
                              remoteAnswer |-> remoteAnswer'[a]]]
  ELSE st

\* startManualHost, up to its first await
StartManualHost(a) ==
  /\ view[a] = "HOME"
  /\ Len(pcs[a]) < MaxPC
  /\ view' = [view EXCEPT ![a] = "MANUAL_HOST"]
  /\ status' = [status EXCEPT ![a] = "Generating Code..."]
  /\ pcs' = [pcs EXCEPT ![a] = InitPC(a, TRUE)]
  /\ pcRef' = [pcRef EXCEPT ![a] = Len(pcs[a]) + 1]
  /\ dataChannelRef' = [dataChannelRef EXCEPT ![a] = Len(pcs[a]) + 1]
  /\ wire' = WireAfterClose(a)
  /\ tasks' = [tasks EXCEPT ![a] =
                 Append(@, Task("mhOffer", Len(pcs[a]) + 1, 0, NullDesc))]
  /\ UNCHANGED <<errorMsg, shortCode, inputCode, localOffer, remoteAnswer, flash,
                 strokes, isReconnecting, mqttVars, restoreTimer, now, sw, board, ghostVars>>
  /\ storage' = [storage EXCEPT ![a] =
                   ManualEffect(a, SaveSession(@, "MANUAL", "HOST", "manual"))]
  /\ VisUpdate(a)

\* startManualHost after createOffer and setLocalDescription; the click
\* handler has no catch
ManualHostOfferSet(a, i) ==
  /\ i \in 1..Len(tasks[a])
  /\ tasks[a][i].k = "mhOffer"
  /\ LET t == tasks[a][i]
     IN IF pcs[a][t.pc].sig = "closed"
        THEN /\ unhandled' = [unhandled EXCEPT ![a] = TRUE]
             /\ tasks' = [tasks EXCEPT ![a] = RemoveAt(@, i)]
             /\ UNCHANGED pcs
        ELSE /\ pcs' = [pcs EXCEPT ![a][t.pc].sig = "have-local-offer",
                                   ![a][t.pc].local = Desc("offer", a, PcId(reloads[a], t.pc))]
             /\ tasks' = [tasks EXCEPT ![a][i].k = "mhIce"]
             /\ UNCHANGED unhandled
  /\ UNCHANGED <<uiVars, pcRef, dataChannelRef, mqttVars, storage, restoreTimer,
                 visClosure, wire, now, sw, board, published, injected, reloads, drawn, crossed,
                 submitted>>

\* pc.onicecandidate with candidate null (gathering complete), as set by
\* startManualHost and by handleManualJoinGenerate; st is the status shown
ManualIceDone(a, i, k, st) ==
  /\ i \in 1..Len(tasks[a])
  /\ tasks[a][i].k = k
  /\ pcs[a][tasks[a][i].pc].sig # "closed"
  /\ localOffer' = [localOffer EXCEPT ![a] =
       CompressToBase64(JSONstringify(pcs[a][tasks[a][i].pc].local))]
  /\ status' = [status EXCEPT ![a] = st]
  /\ tasks' = [tasks EXCEPT ![a] = RemoveAt(@, i)]
  /\ UNCHANGED <<view, errorMsg, shortCode, inputCode, remoteAnswer, flash,
                 strokes, isReconnecting, rtcVars, mqttVars, restoreTimer,
                 visClosure, wire, now, sw, board, ghostVars>>
  /\ storage' = [storage EXCEPT ![a] = ManualEffect(a, @)]

ManualHostIceDone(a, i) == ManualIceDone(a, i, "mhIce", "Ready")

ManualJoinIceDone(a, i) == ManualIceDone(a, i, "mjIce", "Reply Generated")

\* the back button of the MANUAL_HOST and MANUAL_JOIN views:
\* clearSession(); setView('HOME')
ManualBack(a) ==
  /\ view[a] \in ManualViews
  /\ view' = [view EXCEPT ![a] = "HOME"]
  /\ storage' = [storage EXCEPT ![a] = ClearSession(@)]
  /\ UNCHANGED <<status, errorMsg, shortCode, inputCode, localOffer,
                 remoteAnswer, flash, strokes, isReconnecting, rtcVars, mqttVars,
                 tasks, restoreTimer, wire, now, sw, board, ghostVars>>
  /\ VisUpdate(a)

\* startManualJoin
StartManualJoin(a) ==
  /\ view[a] = "HOME"
  /\ view' = [view EXCEPT ![a] = "MANUAL_JOIN"]
  /\ remoteAnswer' = [remoteAnswer EXCEPT ![a] = EmptyText]
  /\ UNCHANGED <<status, errorMsg, shortCode, inputCode, localOffer, flash,
                 strokes, isReconnecting, rtcVars, mqttVars, tasks, restoreTimer,
                 wire, now, sw, board, ghostVars>>
  /\ storage' = [storage EXCEPT ![a] =
                   ManualEffect(a, SaveSession(@, "MANUAL", "JOINER", "manual"))]
  /\ VisUpdate(a)

\* what a user can paste in the textarea of a manual view: text that is no
\* code, the code the other device shows, or a code of somebody else
PasteTexts(a) ==
  {JunkNull, JunkText,
   CompressToBase64(JSONstringify(
     Desc(IF view[a] = "MANUAL_HOST" THEN "answer" ELSE "offer", "X", 1)))}
  \cup (IF localOffer[Other(a)].enc = "lz" THEN {localOffer[Other(a)]} ELSE {})

\* onChange of the textarea (remoteAnswer) of a manual view; the
\* MANUAL_JOIN view shows it while localOffer is empty
PasteRemoteAnswer(a) ==
  /\ \/ view[a] = "MANUAL_HOST"
     \/ view[a] = "MANUAL_JOIN" /\ localOffer[a].enc = "empty"
  /\ \E t \in PasteTexts(a) :
       /\ t # remoteAnswer[a]
       /\ remoteAnswer' = [remoteAnswer EXCEPT ![a] = t]
  /\ submitted' = [submitted EXCEPT ![a] = "none"]
  /\ UNCHANGED <<view, status, errorMsg, shortCode, inputCode, localOffer, flash,
                 strokes, isReconnecting, rtcVars, mqttVars, tasks, restoreTimer,
                 visClosure, wire, now, sw, board, published, unhandled, injected, reloads,
                 drawn, crossed>>
  /\ storage' = [storage EXCEPT ![a] = ManualEffect(a, @)]

\* the kind of code the user submits (ghost)
Submits(t) == IF DecompressParse(t).ok /\ DecompressParse(t).val.type # "null"
              THEN "valid" ELSE "invalid"

\* handleManualHostConnect, up to its await: the Connect button of the
\* MANUAL_HOST view, enabled while remoteAnswer is not empty
ManualHostConnect(a) ==
  /\ view[a] = "MANUAL_HOST"
  /\ remoteAnswer[a].enc # "empty"
  /\ Len(tasks[a]) < MaxTasks
  /\ submitted' = [submitted EXCEPT ![a] = Submits(remoteAnswer[a])]
  /\ LET r == DecompressParse(remoteAnswer[a])
     IN IF pcRef[a] = 0
        THEN UNCHANGED <<errorMsg, tasks>>
        ELSE IF r.ok
        THEN /\ tasks' = [tasks EXCEPT ![a] =
                            Append(@, Task("mhSRD", pcRef[a], 0, r.val))]
             /\ UNCHANGED errorMsg
        ELSE /\ errorMsg' = [errorMsg EXCEPT ![a] = "Invalid Answer Code"]
             /\ UNCHANGED tasks
  /\ UNCHANGED <<view, status, shortCode, inputCode, localOffer, remoteAnswer,
                 flash, strokes, isReconnecting, rtcVars, mqttVars, storage,
                 restoreTimer, visClosure, wire, now, sw, board, published, unhandled,
                 injected, reloads, drawn, crossed>>

\* handleManualHostConnect after await setRemoteDescription(desc)
ManualHostAnswerSettled(a, i) ==
  /\ i \in 1..Len(tasks[a])
  /\ tasks[a][i].k = "mhSRD"
  /\ LET t == tasks[a][i]
     IN IF pcs[a][t.pc].sig = "have-local-offer" /\ t.d.type = "answer"
        THEN /\ pcs' = [pcs EXCEPT ![a][t.pc].sig = "stable",
                                   ![a][t.pc].remote = t.d,
                                   ![a][t.pc].nAns = @ + 1]
             /\ status' = [status EXCEPT ![a] = "Connecting..."]
             /\ UNCHANGED errorMsg
        ELSE /\ errorMsg' = [errorMsg EXCEPT ![a] = "Invalid Answer Code"]
             /\ UNCHANGED <<pcs, status>>
  /\ tasks' = [tasks EXCEPT ![a] = RemoveAt(@, i)]
  /\ UNCHANGED <<view, shortCode, inputCode, localOffer, remoteAnswer, flash,
                 strokes, isReconnecting, pcRef, dataChannelRef, mqttVars,
                 storage, restoreTimer, visClosure, wire, now, sw, board, ghostVars>>

\* handleManualJoinGenerate, up to its await: the Generate Reply button of
\* the MANUAL_JOIN view; initPC() runs before the code is decoded
ManualJoinGenerate(a) ==
  /\ view[a] = "MANUAL_JOIN"
  /\ localOffer[a].enc = "empty"
  /\ remoteAnswer[a].enc # "empty"
  /\ Len(pcs[a]) < MaxPC
  /\ submitted' = [submitted EXCEPT ![a] = Submits(remoteAnswer[a])]
  /\ pcs' = [pcs EXCEPT ![a] = InitPC(a, FALSE)]
  /\ pcRef' = [pcRef EXCEPT ![a] = Len(pcs[a]) + 1]
  /\ wire' = WireAfterClose(a)
  /\ LET r == DecompressParse(remoteAnswer[a])
     IN IF r.ok
        THEN /\ tasks' = [tasks EXCEPT ![a] =
                            Append(@, Task("mjSRD", Len(pcs[a]) + 1, 0, r.val))]
             /\ UNCHANGED errorMsg
        ELSE /\ errorMsg' = [errorMsg EXCEPT ![a] = "Invalid Host Code"]
             /\ UNCHANGED tasks
  /\ UNCHANGED <<view, status, shortCode, inputCode, localOffer, remoteAnswer,
                 flash, strokes, isReconnecting, dataChannelRef, mqttVars,
                 storage, restoreTimer, visClosure, now, sw, board, published, unhandled,
                 injected, reloads, drawn, crossed>>

\* handleManualJoinGenerate after one of its awaits settles: step k ran on
\* a connection in a state it accepts (ok), giving the connection p2 and
\* the next step; a rejection is caught and shown as 'Invalid Host Code'
ManualJoinStep(a, i, k, ok, p2, next) ==
  /\ i \in 1..Len(tasks[a])
  /\ tasks[a][i].k = k
  /\ IF ok
     THEN /\ pcs' = [pcs EXCEPT ![a][tasks[a][i].pc] = p2]
          /\ tasks' = [tasks EXCEPT ![a][i] = next]
          /\ UNCHANGED errorMsg
     ELSE /\ errorMsg' = [errorMsg EXCEPT ![a] = "Invalid Host Code"]
          /\ tasks' = [tasks EXCEPT ![a] = RemoveAt(@, i)]
          /\ UNCHANGED pcs
  /\ UNCHANGED <<view, status, shortCode, inputCode, localOffer, remoteAnswer,
                 flash, strokes, isReconnecting, pcRef, dataChannelRef, mqttVars,
                 storage, restoreTimer, visClosure, wire, now, sw, board, ghostVars>>

\* await pc.setRemoteDescription(offerDesc)
ManualJoinOfferSettled(a, i) ==
  /\ i \in 1..Len(tasks[a])
  /\ LET t == tasks[a][i]
         p == pcs[a][t.pc]
     IN ManualJoinStep(a, i, "mjSRD",
          p.sig \in {"stable", "have-remote-offer"} /\ t.d.type = "offer",
          [p EXCEPT !.sig = "have-remote-offer", !.remote = t.d, !.nOff = @ + 1],
          [t EXCEPT !.k = "mjCreateAnswer"])

\* await pc.createAnswer()
ManualJoinAnswerCreated(a, i) ==
  /\ i \in 1..Len(tasks[a])
  /\ LET t == tasks[a][i]
         p == pcs[a][t.pc]
     IN ManualJoinStep(a, i, "mjCreateAnswer", p.sig = "have-remote-offer", p,
          [t EXCEPT !.k = "mjSLD", !.d = Desc("answer", a, PcId(reloads[a], t.pc))])

\* await pc.setLocalDescription(answer)
ManualJoinAnswerSet(a, i) ==
  /\ i \in 1..Len(tasks[a])
  /\ LET t == tasks[a][i]
         p == pcs[a][t.pc]
     IN ManualJoinStep(a, i, "mjSLD", p.sig = "have-remote-offer",
          [p EXCEPT !.sig = "stable", !.local = t.d],
          [t EXCEPT !.k = "mjIce"])

\* ---- page load ----------------------------------------------------------
\* the session the mount effect restores: the stored record if it is less
\* than 2 hours old
\* a restore effect that still restores a record exactly 2 hours old
RestorableInclusive(st) ==
  /\ st.session.mode \notin {"NONE", "UNPARSABLE"}
  /\ now - st.session.timestamp <= SessionMaxAge

\* the restore effect's test: a record is stored, JSON.parse does not throw
\* on it, and Date.now() - session.timestamp < 2 h
Restorable(st) ==
  /\ st.session.mode \notin {"NONE", "UNPARSABLE"}
  /\ now - st.session.timestamp < SessionMaxAge

RestoresManual(st) ==
  Restorable(st) /\ st.session.mode = "MANUAL" /\ st.manual.present

\* parsed.localOffer || ''
OrEmpty(t) == IF t.enc = "empty" THEN EmptyText ELSE t

\* localStorage after the mount effect: a stale record is cleared
StorageAfterMount(st) ==
  IF st.session.mode # "NONE" /\ ~Restorable(st) THEN ClearSession(st) ELSE st

\* the page is loaded again (window.location.reload() or the browser's
\* reload): the old page's connections, relay clients and callbacks are
\* gone (closed, ended, never run again), the component mounts with its
\* initial state, and the restore effect runs
LoadPage(a, st) ==
  /\ reloads[a] < MaxReload
  /\ reloads' = [reloads EXCEPT ![a] = @ + 1]
  /\ pcs' = [pcs EXCEPT ![a] = <<>>]
  /\ pcRef' = [pcRef EXCEPT ![a] = 0]
  /\ dataChannelRef' = [dataChannelRef EXCEPT ![a] = 0]
  /\ wire' = WireAfterClose(a)
  /\ clients' = [clients EXCEPT ![a] = <<>>]
  /\ mqttClientRef' = [mqttClientRef EXCEPT ![a] = 0]
  /\ inbox' = [inbox EXCEPT ![a] = <<>>]
  /\ tasks' = [tasks EXCEPT ![a] = <<>>]
  /\ unhandled' = [unhandled EXCEPT ![a] = FALSE]
  /\ status' = [status EXCEPT ![a] = ""]
  /\ errorMsg' = [errorMsg EXCEPT ![a] = ""]
  /\ flash' = [flash EXCEPT ![a] = FALSE]
  /\ strokes' = [strokes EXCEPT ![a] = <<>>]
  /\ LET cloud == Restorable(st) /\ st.session.mode = "CLOUD"
         manual == RestoresManual(st)
     IN /\ shortCode' = [shortCode EXCEPT ![a] = IF cloud THEN st.session.code ELSE ""]
        /\ inputCode' = [inputCode EXCEPT ![a] = IF cloud THEN st.session.code ELSE ""]
        /\ isReconnecting' = [isReconnecting EXCEPT ![a] = cloud]
        /\ restoreTimer' = [restoreTimer EXCEPT ![a] =
                              IF cloud THEN st.session ELSE NoSession]
        /\ localOffer' = [localOffer EXCEPT ![a] =
                            IF manual THEN OrEmpty(st.manual.localOffer) ELSE EmptyText]
        /\ remoteAnswer' = [remoteAnswer EXCEPT ![a] =
                              IF manual THEN OrEmpty(st.manual.remoteAnswer) ELSE EmptyText]
        /\ view' = [view EXCEPT ![a] =
                      IF manual
                      THEN IF st.session.role = "HOST" THEN "MANUAL_HOST" ELSE "MANUAL_JOIN"
                      ELSE "HOME"]
  /\ storage' = [storage EXCEPT ![a] = ManualEffect(a, StorageAfterMount(st))]
  /\ visClosure' = [visClosure EXCEPT ![a] = FALSE]
  /\ submitted' = [submitted EXCEPT ![a] = "none"]
  /\ board' = [board EXCEPT ![a] = NoBoard]
  /\ UNCHANGED <<now, sw, published, injected, drawn, crossed>>

\* the user reloads the page in the browser
Reload(a) == LoadPage(a, storage[a])

\* the back button of the HOST_LOBBY and JOIN_LOBBY views:
\* clearSession(); window.location.reload()
LobbyBack(a) ==
  /\ view[a] \in {"HOST_LOBBY", "JOIN_LOBBY"}
  /\ LoadPage(a, ClearSession(storage[a]))

\* an exitGame that reloads without clearing the stored session
ExitGameKeepsSession(a, confirmed) ==
  /\ view[a] = "GAME"
  /\ IF confirmed THEN LoadPage(a, storage[a]) ELSE UNCHANGED vars

\* exitGame: the END button of the GAME view; confirm() is the user's answer
ExitGame(a, confirmed) ==
  /\ view[a] = "GAME"
  /\ IF confirmed
     THEN LoadPage(a, ClearSession(storage[a]))
     ELSE UNCHANGED vars

\* a restore timer that ignores the stored role and always connects as host
RestoreTimerFireAsHost(a) ==
  /\ restoreTimer[a].mode = "CLOUD"
  /\ restoreTimer' = [restoreTimer EXCEPT ![a] = NoSession]
  /\ ConnectCloudHost(a, restoreTimer[a].code, FALSE)
  /\ UNCHANGED <<errorMsg, shortCode, inputCode, localOffer, remoteAnswer, flash,
                 strokes, isReconnecting, storage, tasks, now, sw, board, ghostVars>>
  /\ VisUpdate(a)

\* the 100 ms timer of the restore effect fires; its closure is the one of
\* the first render (view 'HOME', isReconnecting false)
RestoreTimerFire(a) ==
  /\ restoreTimer[a].mode = "CLOUD"
  /\ restoreTimer' = [restoreTimer EXCEPT ![a] = NoSession]
  /\ IF restoreTimer[a].role = "HOST"
     THEN ConnectCloudHost(a, restoreTimer[a].code, FALSE)
     ELSE ConnectCloudJoiner(a, restoreTimer[a].code, "HOME", FALSE)
  /\ UNCHANGED <<errorMsg, shortCode, inputCode, localOffer, remoteAnswer, flash,
                 strokes, isReconnecting, storage, tasks, now, sw, board, ghostVars>>
  /\ VisUpdate(a)

\* an hour passes (time is observed only through a stored timestamp)
Tick ==
  /\ now < MaxTime
  /\ \E a \in Apps : storage[a].session.mode # "NONE"
  /\ now' = now + 1
  /\ UNCHANGED <<uiVars, rtcVars, mqttVars, storage, tasks, restoreTimer,
                 visClosure, wire, sw, board, ghostVars>>

\* ---- the cloud handshake of a host A and a joiner B ---------------------
CloudNext ==
  \/ StartCloudHost("A")
  \/ TypeInputCode("B")
  \/ JoinCloudGame("B")
  \/ \E a \in Apps :
       \/ \E c \in 1..Len(clients[a]) : HostOnConnect(a, c) \/ JoinerOnConnect(a, c)
       \/ \E i \in 1..Len(tasks[a]) :
            \/ HostOfferSet(a, i)
            \/ HostAnswerSettled(a, i)
            \/ JoinerOfferSettled(a, i)
            \/ JoinerAnswerCreated(a, i)
            \/ JoinerAnswerSet(a, i)
            \/ JoinerAnswerTimer(a, i)
       \/ HostOnJoin(a)
       \/ HostOnAnswer(a)
       \/ JoinerOnRestart(a)
       \/ JoinerOnOffer(a)
       \/ \E i \in 1..Len(pcs[a]) : PcConnected(a, i) \/ ChannelOpen(a, i)
  \/ RelayInject

Spec == Init /\ [][CloudNext]_vars

\* ---- one app instance: sessions, manual mode, reloads -------------------
SessionNext ==
  \/ StartCloudHost("A")
  \/ TypeInputCode("A")
  \/ JoinCloudGame("A")
  \/ StartManualHost("A")
  \/ \E i \in 1..Len(tasks["A"]) : ManualHostOfferSet("A", i)
  \/ \E i \in 1..Len(tasks["A"]) : ManualHostIceDone("A", i)
  \/ StartManualJoin("A")
  \/ PasteRemoteAnswer("A")
  \/ ManualHostConnect("A")
  \/ \E i \in 1..Len(tasks["A"]) : ManualHostAnswerSettled("A", i)
  \/ ManualJoinGenerate("A")
  \/ \E i \in 1..Len(tasks["A"]) : ManualJoinOfferSettled("A", i)
  \/ \E i \in 1..Len(tasks["A"]) : ManualJoinAnswerCreated("A", i)
  \/ \E i \in 1..Len(tasks["A"]) : ManualJoinAnswerSet("A", i)
  \/ \E i \in 1..Len(tasks["A"]) : ManualJoinIceDone("A", i)
  \/ ManualBack("A")
  \/ LobbyBack("A")
  \/ Reload("A")
  \/ RestoreTimerFire("A")
  \/ Tick

SpecSession == Init /\ [][SessionNext]_vars

\* ---- one app instance: what a page load finds in localStorage ------------
\* the actions that write the session record and the manual backup, the page
\* loads and the clock
RestoreNext ==
  \/ StartCloudHost("A")
  \/ TypeInputCode("A")
  \/ JoinCloudGame("A")
  \/ StartManualHost("A")
  \/ \E i \in 1..Len(tasks["A"]) : ManualHostOfferSet("A", i)
  \/ \E i \in 1..Len(tasks["A"]) : ManualHostIceDone("A", i)
  \/ StartManualJoin("A")
  \/ PasteRemoteAnswer("A")
  \/ ManualBack("A")
  \/ LobbyBack("A")
  \/ Reload("A")
  \/ RestoreTimerFire("A")
  \/ Tick

SpecRestore == Init /\ [][RestoreNext]_vars

\* the text under chkobba_session is overwritten with one that is not JSON
\* (localStorage is shared by every script and tab of the origin)
CorruptSession(a) ==
  /\ storage[a].session \notin {NoSession, BrokenSession}
  /\ storage' = [storage EXCEPT ![a].session = BrokenSession]
  /\ UNCHANGED <<uiVars, rtcVars, mqttVars, tasks, restoreTimer, visClosure,
                 wire, now, sw, board, ghostVars>>

\* ---- mounting on a stale or broken record ------------------------------
StaleNext ==
  \/ StartCloudHost("A")
  \/ TypeInputCode("A")
  \/ JoinCloudGame("A")
  \/ StartManualHost("A")
  \/ \E i \in 1..Len(tasks["A"]) : ManualHostOfferSet("A", i)
  \/ \E i \in 1..Len(tasks["A"]) : ManualHostIceDone("A", i)
  \/ StartManualJoin("A")
  \/ CorruptSession("A")
  \/ Reload("A")
  \/ RestoreTimerFire("A")
  \/ Tick

SpecStale == Init /\ [][StaleNext]_vars

\* ---- the data channel: strokes, clearBoard, ping, heartbeat --------------
\* the colours of a stroke drawn here and of one received
LocalColor == "#3b82f6"

RemoteColor == "#22c55e"

\* a stroke; NoStroke is an absent field
Stroke(id, points, color, remote) ==
  [id |-> id, points |-> points, color |-> color, isRemote |-> remote]

NoStroke == Stroke(-1, <<>>, "", FALSE)

\* { type, ...payload }
Msg(type, stroke) == [type |-> type, stroke |-> stroke]

\* dataChannelRef.current?.readyState === 'open'
ChanOpen(a) == dataChannelRef[a] # 0 /\ pcs[a][dataChannelRef[a]].dc = "open"

\* a sendSync that does not look at the channel's readyState
SendSyncAlways(a, type, stroke) ==
  [wire EXCEPT ![Other(a)] = Append(@, JSONstringify(Msg(type, stroke)))]

\* sendSync(type, payload): the message is dropped unless the channel is open
SendSync(a, type, stroke) ==
  IF ChanOpen(a)
  THEN [wire EXCEPT ![Other(a)] = Append(@, JSONstringify(Msg(type, stroke)))]
  ELSE wire

\* room for one more message of app a on the data channel
CanSend(a) == ChanOpen(a) => Len(wire["A"]) + Len(wire["B"]) < MaxWire

HasMsg(q, type) ==
  \E k \in 1..Len(q) : JSONparse(q[k]).ok /\ JSONparse(q[k]).val.type = type

\* the entry of the drawing history for an operation of app a
Event(a, op, id) == [op |-> op, by |-> a, id |-> id, sent |-> ChanOpen(a)]

\* handleStrokeComplete(points), called by the DrawingBoard of the GAME view;
\* the id is Date.now(), and the clock has advanced when the next stroke is
\* completed.  The DrawingBoard's own state is left to the caller.
HandleStrokeComplete(a, points) ==
  /\ view[a] = "GAME"
  /\ Len(drawn) < MaxStrokes
  /\ CanSend(a)
  /\ strokes' = [strokes EXCEPT ![a] = Append(@, Stroke(now, points, LocalColor, FALSE))]
  /\ wire' = SendSync(a, "SYNC_STROKE", Stroke(now, points, LocalColor, FALSE))
  /\ now' = now + 1
  /\ drawn' = Append(drawn, Event(a, "stroke", now))
  /\ crossed' = (crossed \/ (ChanOpen(a) /\ HasMsg(wire[a], "CLEAR_BOARD")))
  /\ UNCHANGED <<view, status, errorMsg, shortCode, inputCode, localOffer,
                 remoteAnswer, flash, isReconnecting, rtcVars, mqttVars, storage,
                 tasks, restoreTimer, visClosure, sw, published, unhandled,
                 injected, reloads, submitted>>

\* a click on the canvas: mousedown and mouseup at one readable point
Tap(a) == HandleStrokeComplete(a, <<Pt>>) /\ UNCHANGED board

\* DrawingBoard.startDrawing; getCoords gives null when the canvas cannot be
\* read, and then the path starts empty
StartDrawing(a, readable) ==
  /\ view[a] = "GAME"
  /\ board' = [board EXCEPT ![a] =
                 [isDrawing |-> TRUE,
                  currentPath |-> IF readable THEN <<Pt>> ELSE <<>>]]
  /\ UNCHANGED <<uiVars, rtcVars, mqttVars, storage, tasks, restoreTimer,
                 visClosure, wire, now, sw, ghostVars>>

\* DrawingBoard.moveDrawing
MoveDrawing(a, readable) ==
  /\ view[a] = "GAME"
  /\ board[a].isDrawing
  /\ Len(board[a].currentPath) < MaxPoints
  /\ board' = [board EXCEPT ![a].currentPath =
                 IF readable THEN Append(@, Pt) ELSE @]
  /\ UNCHANGED <<uiVars, rtcVars, mqttVars, storage, tasks, restoreTimer,
                 visClosure, wire, now, sw, ghostVars>>

\* an endDrawing that reports the path whatever its length
EndDrawingUnchecked(a) ==
  /\ view[a] = "GAME"
  /\ board[a].isDrawing
  /\ board' = [board EXCEPT ![a] = NoBoard]
  /\ HandleStrokeComplete(a, board[a].currentPath)

\* DrawingBoard.endDrawing (mouseup, mouseleave, touchend): nothing happens
\* unless a gesture is under way; the path is reported when it has a point
EndDrawing(a) ==
  /\ view[a] = "GAME"
  /\ board[a].isDrawing
  /\ board' = [board EXCEPT ![a] = NoBoard]
  /\ IF Len(board[a].currentPath) > 0
     THEN HandleStrokeComplete(a, board[a].currentPath)
     ELSE UNCHANGED <<uiVars, rtcVars, mqttVars, storage, tasks, restoreTimer,
                      visClosure, wire, now, sw, ghostVars>>

\* a clearBoard that does not tell the peer
ClearBoardLocalOnly(a) ==
  /\ view[a] = "GAME"
  /\ Len(drawn) < MaxStrokes
  /\ CanSend(a)
  /\ strokes' = [strokes EXCEPT ![a] = <<>>]
  /\ drawn' = Append(drawn, Event(a, "clear", now))
  /\ crossed' = (crossed \/ (ChanOpen(a) /\ HasMsg(wire[a], "SYNC_STROKE")))
  /\ UNCHANGED <<view, status, errorMsg, shortCode, inputCode, localOffer,
                 remoteAnswer, flash, isReconnecting, rtcVars, mqttVars, storage,
                 tasks, restoreTimer, visClosure, wire, now, sw, board, published,
                 unhandled, injected, reloads, submitted>>

\* clearBoard: the clear button of the GAME view
ClearBoard(a) ==
  /\ view[a] = "GAME"
  /\ Len(drawn) < MaxStrokes
  /\ CanSend(a)
  /\ strokes' = [strokes EXCEPT ![a] = <<>>]
  /\ wire' = SendSync(a, "CLEAR_BOARD", NoStroke)
  /\ drawn' = Append(drawn, Event(a, "clear", now))
  /\ crossed' = (crossed \/ (ChanOpen(a) /\ HasMsg(wire[a], "SYNC_STROKE")))
  /\ UNCHANGED <<view, status, errorMsg, shortCode, inputCode, localOffer,
                 remoteAnswer, flash, isReconnecting, rtcVars, mqttVars, storage,
                 tasks, restoreTimer, visClosure, now, sw, board, published, unhandled,
                 injected, reloads, submitted>>

\* triggerPing: the ping button of the GAME view
TriggerPing(a) ==
  /\ view[a] = "GAME"
  /\ Len(drawn) < MaxStrokes
  /\ CanSend(a)
  /\ wire' = SendSync(a, "PING", NoStroke)
  /\ drawn' = Append(drawn, Event(a, "ping", now))
  /\ UNCHANGED <<uiVars, rtcVars, mqttVars, storage, tasks, restoreTimer,
                 visClosure, now, sw, board, published, unhandled, injected, reloads,
                 crossed, submitted>>

\* a heartbeat that sends text which is not JSON
HeartbeatPlain(a) ==
  /\ view[a] = "GAME"
  /\ ChanOpen(a)
  /\ CanSend(a)
  /\ wire' = [wire EXCEPT ![Other(a)] = Append(@, PlainText)]
  /\ UNCHANGED <<uiVars, rtcVars, mqttVars, storage, tasks, restoreTimer,
                 visClosure, now, sw, board, ghostVars>>

\* the 3 s interval of the GAME view
Heartbeat(a) ==
  /\ view[a] = "GAME"
  /\ ChanOpen(a)
  /\ CanSend(a)
  /\ wire' = SendSync(a, "HEARTBEAT", NoStroke)
  /\ UNCHANGED <<uiVars, rtcVars, mqttVars, storage, tasks, restoreTimer,
                 visClosure, now, sw, board, ghostVars>>

\* a channel.onmessage that takes the stroke field of a SYNC_STROKE as
\* present without looking
OnMessageAnyStroke(a, payload) ==
  LET r == JSONparse(payload)
  IN IF ~r.ok \/ r.val.type = "null"
     THEN UNCHANGED <<strokes, flash>>
     ELSE IF r.val.type = "SYNC_STROKE"
     THEN /\ strokes' = [strokes EXCEPT ![a] =
                           Append(@, [r.val.stroke EXCEPT !.isRemote = TRUE,
                                                       !.color = RemoteColor])]
          /\ UNCHANGED flash
     ELSE IF r.val.type = "CLEAR_BOARD"
     THEN /\ strokes' = [strokes EXCEPT ![a] = <<>>]
          /\ UNCHANGED flash
     ELSE IF r.val.type = "PING"
     THEN /\ flash' = [flash EXCEPT ![a] = TRUE]
          /\ UNCHANGED strokes
     ELSE UNCHANGED <<strokes, flash>>

\* a channel.onmessage that appends the received stroke as the sender made it
OnMessageKeepsFlags(a, payload) ==
  LET r == JSONparse(payload)
  IN IF ~r.ok \/ r.val.type = "null"
     THEN UNCHANGED <<strokes, flash>>
     ELSE IF r.val.type = "SYNC_STROKE" /\ r.val.stroke # NoStroke
     THEN /\ strokes' = [strokes EXCEPT ![a] = Append(@, r.val.stroke)]
          /\ UNCHANGED flash
     ELSE IF r.val.type = "CLEAR_BOARD"
     THEN /\ strokes' = [strokes EXCEPT ![a] = <<>>]
          /\ UNCHANGED flash
     ELSE IF r.val.type = "PING"
     THEN /\ flash' = [flash EXCEPT ![a] = TRUE]
          /\ UNCHANGED strokes
     ELSE UNCHANGED <<strokes, flash>>

\* channel.onmessage: JSON.parse throws on text that is not JSON and
\* data.type throws on the value null; both are caught and dropped
OnMessage(a, payload) ==
  LET r == JSONparse(payload)
  IN IF ~r.ok \/ r.val.type = "null"
     THEN UNCHANGED <<strokes, flash>>
     ELSE IF r.val.type = "SYNC_STROKE" /\ r.val.stroke # NoStroke
     THEN /\ strokes' = [strokes EXCEPT ![a] =
                           Append(@, [r.val.stroke EXCEPT !.isRemote = TRUE,
                                                       !.color = RemoteColor])]
          /\ UNCHANGED flash
     ELSE IF r.val.type = "CLEAR_BOARD"
     THEN /\ strokes' = [strokes EXCEPT ![a] = <<>>]
          /\ UNCHANGED flash
     ELSE IF r.val.type = "PING"
     THEN /\ flash' = [flash EXCEPT ![a] = TRUE]
          /\ UNCHANGED strokes
     ELSE UNCHANGED <<strokes, flash>>

\* the next message of the peer arrives (reliable, ordered channel)
ChannelOnMessage(a) ==
  /\ ChanOpen(a)
  /\ wire[a] # <<>>
  /\ OnMessage(a, Head(wire[a]))
  /\ wire' = [wire EXCEPT ![a] = Tail(@)]
  /\ UNCHANGED <<view, status, errorMsg, shortCode, inputCode, localOffer,
                 remoteAnswer, isReconnecting, rtcVars, mqttVars, storage, tasks,
                 restoreTimer, visClosure, now, sw, board, ghostVars>>

\* payloads this app never sends: text that is not JSON, the JSON value
\* null, an unknown type, a SYNC_STROKE without stroke
ForeignData ==
  {PlainText, JSONstringify(NullDesc), JSONstringify(Msg("RESET", NoStroke)),
   JSONstringify(Msg("SYNC_STROKE", NoStroke))}

\* channel.onmessage with such a payload (the remote end of a channel is
\* whatever program answered the handshake on the public relay)
ForeignMessage(a) ==
  /\ ChanOpen(a)
  /\ injected < MaxInject
  /\ injected' = injected + 1
  /\ \E payload \in ForeignData : OnMessage(a, payload)
  /\ UNCHANGED <<view, status, errorMsg, shortCode, inputCode, localOffer,
                 remoteAnswer, isReconnecting, rtcVars, mqttVars, storage, tasks,
                 restoreTimer, visClosure, wire, now, sw, board, published, unhandled,
                 reloads, drawn, crossed, submitted>>

\* handleIncomingPing: the 500 ms timer clears the flash
FlashOff(a) ==
  /\ flash[a]
  /\ flash' = [flash EXCEPT ![a] = FALSE]
  /\ UNCHANGED <<view, status, errorMsg, shortCode, inputCode, localOffer,
                 remoteAnswer, strokes, isReconnecting, rtcVars, mqttVars,
                 storage, tasks, restoreTimer, visClosure, wire, now, sw, board, ghostVars>>

\* the state the cloud handshake of host A and joiner B leaves behind:
\* offer and answer are applied on both sides, nothing is pending
Handshaken ==
  /\ now = 0
  /\ sw = NoWorker
  /\ board = [a \in Apps |-> NoBoard]
  /\ view = [A |-> "HOST_LOBBY", B |-> "JOIN_LOBBY"]
  /\ status = [A |-> "Connecting P2P...", B |-> "Connecting P2P..."]
  /\ errorMsg = [a \in Apps |-> ""]
  /\ shortCode = [A |-> "1234", B |-> ""]
  /\ inputCode = [A |-> "", B |-> "1234"]
  /\ localOffer = [a \in Apps |-> EmptyText]
  /\ remoteAnswer = [a \in Apps |-> EmptyText]
  /\ flash = [a \in Apps |-> FALSE]
  /\ strokes = [a \in Apps |-> <<>>]
  /\ isReconnecting = [a \in Apps |-> FALSE]
  /\ pcs = [A |-> <<[NewPc EXCEPT !.local = Desc("offer", "A", PcId(0, 1)),
                                  !.remote = Desc("answer", "B", PcId(0, 1)),
                                  !.dc = "connecting", !.nAns = 1]>>,
            B |-> <<[NewPc EXCEPT !.local = Desc("answer", "B", PcId(0, 1)),
                                  !.remote = Desc("offer", "A", PcId(0, 1)),
                                  !.nOff = 1]>>]
  /\ pcRef = [a \in Apps |-> 1]
  /\ dataChannelRef = [A |-> 1, B |-> 0]
  /\ clients = [A |-> <<[role |-> "HOST", code |-> "1234", pc |-> 1,
                         rec |-> FALSE, st |-> "connected",
                         subs |-> {"join", "answer"}, joins |-> 1,
                         answers |-> 1]>>,
                B |-> <<[role |-> "JOINER", code |-> "1234", pc |-> 1,
                         rec |-> FALSE, st |-> "connected",
                         subs |-> {"offer", "restart"}, joins |-> 0,
                         answers |-> 0]>>]
  /\ mqttClientRef = [a \in Apps |-> 1]
  /\ storage = [A |-> SaveSession([session |-> NoSession, manual |-> NoManual],
                                  "CLOUD", "HOST", "1234"),
                B |-> SaveSession([session |-> NoSession, manual |-> NoManual],
                                  "CLOUD", "JOINER", "1234")]
  /\ tasks = [a \in Apps |-> <<>>]
  /\ restoreTimer = [a \in Apps |-> NoSession]
  /\ visClosure = [a \in Apps |-> FALSE]
  /\ inbox = [a \in Apps |-> <<>>]
  /\ wire = [a \in Apps |-> <<>>]
  /\ published = {<<"join", "B">>, <<"offer", "A">>, <<"answer", "B">>}
  /\ unhandled = [a \in Apps |-> FALSE]
  /\ injected = 0
  /\ reloads = [a \in Apps |-> 0]
  /\ drawn = <<>>
  /\ crossed = FALSE
  /\ submitted = [a \in Apps |-> "none"]

\* ---- reconnection: reloads and the visibility handler --------------------
\* pc.onconnectionstatechange with connectionState 'disconnected' or 'failed'
\* (the peer's page went away, or the network did)
PcDisconnected(a, i) ==
  /\ i \in 1..Len(pcs[a])
  /\ pcs[a][i].conn = "connected"
  /\ pcs' = [pcs EXCEPT ![a][i].conn = "disconnected"]
  /\ status' = [status EXCEPT ![a] = "Disconnected. Trying to reconnect..."]
  /\ UNCHANGED <<view, errorMsg, shortCode, inputCode, localOffer, remoteAnswer,
                 flash, strokes, isReconnecting, pcRef, dataChannelRef, mqttVars,
                 storage, tasks, restoreTimer, visClosure, wire, now, sw, board,
                 ghostVars>>

\* a visibility handler that does not look at the connection's state
HandleVisibilityChangeAlways(a) ==
  /\ view[a] = "GAME"
  /\ storage[a].session.mode = "CLOUD"
  /\ isReconnecting' = [isReconnecting EXCEPT ![a] = TRUE]
  /\ IF storage[a].session.role = "HOST"
     THEN ConnectCloudHost(a, storage[a].session.code, visClosure[a])
     ELSE ConnectCloudJoiner(a, storage[a].session.code, "GAME", visClosure[a])
  /\ UNCHANGED <<errorMsg, shortCode, inputCode, localOffer, remoteAnswer, flash,
                 strokes, storage, tasks, restoreTimer, now, sw, board, ghostVars>>
  /\ VisUpdate(a)

\* handleVisibilityChange with visibilityState 'visible': the handler is the
\* one of the render in which the view last changed, so its connectCloudHost
\* and connectCloudJoiner see the isReconnecting of that render
HandleVisibilityChange(a) ==
  /\ view[a] = "GAME"
  /\ pcRef[a] = 0 \/ pcs[a][pcRef[a]].conn # "connected"
  /\ storage[a].session.mode = "CLOUD"
  /\ isReconnecting' = [isReconnecting EXCEPT ![a] = TRUE]
  /\ IF storage[a].session.role = "HOST"
     THEN ConnectCloudHost(a, storage[a].session.code, visClosure[a])
     ELSE ConnectCloudJoiner(a, storage[a].session.code, "GAME", visClosure[a])
  /\ UNCHANGED <<errorMsg, shortCode, inputCode, localOffer, remoteAnswer, flash,
                 strokes, storage, tasks, restoreTimer, now, sw, board, ghostVars>>
  /\ VisUpdate(a)

ReconnectNext ==
  \E a \in Apps :
    \/ \E i \in 1..Len(pcs[a]) :
         PcConnected(a, i) \/ ChannelOpen(a, i) \/ PcDisconnected(a, i)
    \/ HandleVisibilityChange(a)
    \/ Reload(a)
    \/ RestoreTimerFire(a)
    \/ \E c \in 1..Len(clients[a]) : HostOnConnect(a, c) \/ JoinerOnConnect(a, c)
    \/ \E i \in 1..Len(tasks[a]) :
         \/ HostOfferSet(a, i)
         \/ HostAnswerSettled(a, i)
         \/ JoinerOfferSettled(a, i)
         \/ JoinerAnswerCreated(a, i)
         \/ JoinerAnswerSet(a, i)
         \/ JoinerAnswerTimer(a, i)
    \/ HostOnJoin(a)
    \/ HostOnAnswer(a)
    \/ JoinerOnOffer(a)

SpecReconnect == Handshaken /\ [][ReconnectNext]_vars

\* ---- a connected host whose joiner reloads or returns to the foreground ---
JoinerReloadNext ==
  \/ \E a \in Apps :
       \/ \E i \in 1..Len(pcs[a]) :
            PcConnected(a, i) \/ ChannelOpen(a, i) \/ PcDisconnected(a, i)
       \/ \E c \in 1..Len(clients[a]) : JoinerOnConnect(a, c)
       \/ \E i \in 1..Len(tasks[a]) :
            \/ HostAnswerSettled(a, i)
            \/ JoinerOfferSettled(a, i)
            \/ JoinerAnswerCreated(a, i)
            \/ JoinerAnswerSet(a, i)
            \/ JoinerAnswerTimer(a, i)
       \/ HostOnJoin(a)
       \/ HostOnAnswer(a)
       \/ JoinerOnOffer(a)
  \/ Reload("B")
  \/ RestoreTimerFire("B")
  \/ HandleVisibilityChange("B")

SpecJoinerReload == Handshaken /\ [][JoinerReloadNext]_vars

\* ---- every way app A starts a handshake ----------------------------------
PathsNext ==
  \/ \E a \in Apps : \E i \in 1..Len(pcs[a]) :
       PcConnected(a, i) \/ ChannelOpen(a, i) \/ PcDisconnected(a, i)
  \/ StartCloudHost("A")
  \/ TypeInputCode("A")
  \/ JoinCloudGame("A")
  \/ Reload("A")
  \/ RestoreTimerFire("A")
  \/ HandleVisibilityChange("A")
  \/ StartManualHost("A")
  \/ StartManualJoin("A")
  \/ PasteRemoteAnswer("A")
  \/ ManualJoinGenerate("A")
  \/ \E c \in 1..Len(clients["A"]) : HostOnConnect("A", c) \/ JoinerOnConnect("A", c)
  \/ \E i \in 1..Len(tasks["A"]) :
       \/ HostOfferSet("A", i)
       \/ ManualHostOfferSet("A", i)
       \/ ManualHostIceDone("A", i)
       \/ ManualJoinOfferSettled("A", i)
       \/ ManualJoinAnswerCreated("A", i)
       \/ ManualJoinAnswerSet("A", i)
       \/ ManualJoinIceDone("A", i)

SpecPaths == Handshaken /\ [][PathsNext]_vars

\* ---- coming back to a game whose connection dropped ----------------------
\* another tab of the same origin rewrites chkobba_session: it leaves its
\* game (the key is removed) or starts a manual one
OtherTabSession(a) ==
  /\ storage[a].session.mode = "CLOUD"
  /\ \E st \in {ClearSession(storage[a]),
                SaveSession(storage[a], "MANUAL", "HOST", "manual")} :
       storage' = [storage EXCEPT ![a] = st]
  /\ UNCHANGED <<uiVars, rtcVars, mqttVars, tasks, restoreTimer, visClosure,
                 wire, now, sw, board, ghostVars>>

VisibleNext ==
  \E a \in Apps :
    \/ \E i \in 1..Len(pcs[a]) :
         PcConnected(a, i) \/ ChannelOpen(a, i) \/ PcDisconnected(a, i)
    \/ HandleVisibilityChange(a)
    \/ OtherTabSession(a)
    \/ \E c \in 1..Len(clients[a]) : HostOnConnect(a, c) \/ JoinerOnConnect(a, c)
    \/ \E i \in 1..Len(tasks[a]) : HostOfferSet(a, i)

SpecVisible == Handshaken /\ [][VisibleNext]_vars

\* ---- a connection that drops while the page stays open and visible -------
\* everything the two pages do by themselves: no reload, no visibility change
DropNext ==
  \E a \in Apps :
    \/ PcConnected(a, 1)
    \/ ChannelOpen(a, 1)
    \/ PcDisconnected(a, 1)
    \/ Tap(a)
    \/ Heartbeat(a)
    \/ ChannelOnMessage(a)

SpecDrop == Handshaken /\ [][DropNext]_vars /\ WF_vars(DropNext)

\* ---- two connected apps: the data channel --------------------------------
DrawNext ==
  \/ \E a \in Apps :
       \/ PcConnected(a, 1)
       \/ ChannelOpen(a, 1)
       \/ Tap(a)
       \/ ClearBoard(a)
       \/ TriggerPing(a)
       \/ Heartbeat(a)
       \/ ChannelOnMessage(a)
       \/ ForeignMessage(a)
       \/ FlashOff(a)

SpecDraw == Handshaken /\ [][DrawNext]_vars

\* ---- two connected apps: leaving the game or the lobby -------------------
ExitNext ==
  \/ \E a \in Apps :
       \/ PcConnected(a, 1)
       \/ ChannelOpen(a, 1)
       \/ Tap(a)
       \/ ChannelOnMessage(a)
       \/ \E confirmed \in BOOLEAN : ExitGame(a, confirmed)
       \/ LobbyBack(a)

SpecExit == Handshaken /\ [][ExitNext]_vars

\* ---- properties of the cloud handshake ----------------------------------
Publishers == Apps \cup {"X"}

Published(kind) == \E x \in Publishers : <<kind, x>> \in published

\* the host connection and the joiner connection of the handshake
HostPcs(a) == {i \in 1..Len(pcs[a]) : pcs[a][i].dc # "none" \/ pcs[a][i].local.type = "offer"}

\* no handler, continuation or timer of the handshake is left to run
Quiescent ==
  \A a \in Apps :
    /\ inbox[a] = <<>>
    /\ tasks[a] = <<>>
    /\ \A c \in 1..Len(clients[a]) : clients[a][c].st # "connecting"

\* C1: the relay messages of a handshake come in the order join, offer,
\* answer: an app publishes a join only from a connected joiner client, an
\* offer only from a host client whose message handler has received a join
\* (or restart), and an answer only from a connection that has applied an
\* offer and set its answer; so no offer precedes every join and no answer
\* precedes every offer.
C1_JoinOfferAnswerOrder ==
  /\ \A a \in Apps :
       /\ <<"join", a>> \in published =>
            \E c \in 1..Len(clients[a]) :
              clients[a][c].role = "JOINER" /\ clients[a][c].st # "connecting"
       /\ <<"offer", a>> \in published =>
            \E c \in 1..Len(clients[a]) :
              clients[a][c].role = "HOST" /\ clients[a][c].joins > 0
       /\ <<"answer", a>> \in published =>
            \E i \in 1..Len(pcs[a]) :
              pcs[a][i].nOff > 0 /\ pcs[a][i].local.type = "answer"
  /\ (\E a \in Apps : <<"offer", a>> \in published) =>
       Published("join") \/ Published("restart")
  /\ (\E a \in Apps : <<"answer", a>> \in published) => Published("offer")

\* a handshake without third party has published join, offer and answer
C1_Witness ==
  /\ injected = 0
  /\ {<<"join", "B">>, <<"offer", "A">>, <<"answer", "B">>} \subseteq published

\* C2 (as claimed): when the host's handler has received the joiner's join
\* (the host had subscribed before the join was published), nobody else
\* publishes, and every callback and timer has run, the joiner has applied
\* the host's offer and the host has applied the joiner's answer, and both
\* hold the same offer/answer pair.
C2_HandshakeCompletes ==
  (/\ injected = 0
   /\ Quiescent
   /\ \E c \in 1..Len(clients["A"]) : clients["A"][c].joins > 0)
  => \E i \in 1..Len(pcs["A"]), j \in 1..Len(pcs["B"]) :
       /\ pcs["A"][i].nAns = 1
       /\ pcs["B"][j].nOff > 0
       /\ Paired("A", i, j)

C4_OfferOnlyWhenStable ==
  [][\A a \in Apps : \A i \in 1..Len(pcs[a]) :
       pcs'[a][i].nOff # pcs[a][i].nOff => pcs[a][i].sig = "stable"]_vars

\* C4 (amended): the stable check of the joiner's offer handler guards
\* nothing.  A well-formed offer is applied as remote description whenever
\* the connection is stable or have-remote-offer, also while an earlier
\* offer is still being processed, and then goes on to createAnswer; only
\* null and a closed connection are rejected.  An answer is published only
\* by a handler whose createAnswer and setLocalDescription succeeded.
C4_OfferAppliedUnguarded ==
  [][\A a \in Apps : \A i \in 1..Len(tasks[a]) :
       /\ JoinerOfferSettled(a, i) =>
            LET t == tasks[a][i]
                p == pcs[a][t.pc]
            IN IF t.d.type = "offer" /\ p.sig \in {"stable", "have-remote-offer"}
               THEN /\ pcs'[a][t.pc].remote = t.d
                    /\ pcs'[a][t.pc].sig = "have-remote-offer"
                    /\ pcs'[a][t.pc].nOff = p.nOff + 1
                    /\ tasks'[a][i].k = "jCreateAnswer"
               ELSE pcs' = pcs /\ Len(tasks'[a]) = Len(tasks[a]) - 1
       /\ JoinerAnswerTimer(a, i) =>
            /\ pcs[a][tasks[a][i].pc].nOff > 0
            /\ pcs[a][tasks[a][i].pc].local.type = "answer"
    ]_vars

\* a second offer has been applied to the same joiner connection
C4_Witness == \E i \in 1..Len(pcs["B"]) : pcs["B"][i].nOff = 2

\* a relay payload that is not a serialized descriptor
Malformed(payload) == ~JSONparse(payload).ok \/ JSONparse(payload).val.type = "null"

\* C9 (as claimed): a host handed a malformed answer and a joiner handed a
\* malformed offer leave signaling state and status as they were, publish
\* nothing, and raise no unhandled error.
C9_MalformedRelayIgnored ==
  [][\A a \in Apps :
       /\ ((HostOnAnswer(a) \/ JoinerOnOffer(a)) /\ Malformed(Head(inbox[a]).payload))
          => /\ status'[a] = status[a]
             /\ pcs' = pcs
             /\ published' = published
             /\ unhandled'[a] = unhandled[a]
       /\ \A i \in 1..Len(tasks[a]) :
            ((HostAnswerSettled(a, i) \/ JoinerOfferSettled(a, i))
               /\ tasks[a][i].d.type = "null")
            => /\ status'[a] = status[a]
               /\ pcs' = pcs
               /\ published' = published
               /\ unhandled'[a] = unhandled[a]
    ]_vars

\* the host half of C9, which the code keeps
C9_HostHalf ==
  [][\A a \in Apps :
       /\ (HostOnAnswer(a) /\ Malformed(Head(inbox[a]).payload))
          => /\ status'[a] = status[a]
             /\ pcs' = pcs
             /\ published' = published
             /\ unhandled'[a] = unhandled[a]
       /\ \A i \in 1..Len(tasks[a]) :
            (HostAnswerSettled(a, i) /\ tasks[a][i].d.type = "null")
            => /\ status'[a] = status[a]
               /\ pcs' = pcs
               /\ published' = published
               /\ unhandled'[a] = unhandled[a]
    ]_vars

\* ---- properties of sessions and manual mode ------------------------------
\* the mount effect of a page load found the record st in localStorage and
\* left it there
MountFound(a) ==
  /\ reloads'[a] = reloads[a] + 1
  /\ Restorable(storage[a])
  /\ storage'[a].session = storage[a].session

\* the restore timer of app a fires
TimerFired(a) ==
  /\ restoreTimer[a].mode = "CLOUD"
  /\ restoreTimer'[a] = NoSession
  /\ reloads'[a] = reloads[a]

\* C5: when the app mounts and localStorage holds a session record less
\* than 2 hours old, then for mode CLOUD it sets the reconnecting flag,
\* restores the stored code and schedules the handshake, which the timer
\* starts with the stored code in the stored role; for mode MANUAL with a
\* stored manual backup it restores the two texts and shows MANUAL_HOST or
\* MANUAL_JOIN according to the stored role
C5_SessionRestoredOnMount ==
  [][\A a \in Apps :
       /\ MountFound(a) /\ storage[a].session.mode = "CLOUD"
            => /\ isReconnecting'[a]
               /\ shortCode'[a] = storage[a].session.code
               /\ inputCode'[a] = storage[a].session.code
               /\ restoreTimer'[a] = storage[a].session
       /\ TimerFired(a)
            => /\ mqttClientRef'[a] = Len(clients'[a])
               /\ mqttClientRef'[a] # mqttClientRef[a]
               /\ clients'[a][mqttClientRef'[a]].role = restoreTimer[a].role
               /\ clients'[a][mqttClientRef'[a]].code = restoreTimer[a].code
               /\ clients'[a][mqttClientRef'[a]].st = "connecting"
               /\ view'[a] = IF restoreTimer[a].role = "HOST"
                             THEN "HOST_LOBBY" ELSE "JOIN_LOBBY"
       /\ MountFound(a) /\ storage[a].session.mode = "MANUAL"
                        /\ storage[a].manual.present
            => /\ localOffer'[a] = OrEmpty(storage[a].manual.localOffer)
               /\ remoteAnswer'[a] = OrEmpty(storage[a].manual.remoteAnswer)
               /\ view'[a] = IF storage[a].session.role = "HOST"
                             THEN "MANUAL_HOST" ELSE "MANUAL_JOIN"
               /\ ~isReconnecting'[a]
               /\ restoreTimer'[a] = NoSession]_vars

\* a joiner session was restored after a reload and its handshake restarted
C5_Witness ==
  /\ reloads["A"] > 0
  /\ storage["A"].session.mode = "CLOUD"
  /\ storage["A"].session.role = "JOINER"
  /\ isReconnecting["A"]
  /\ inputCode["A"] = storage["A"].session.code
  /\ restoreTimer["A"] = NoSession
  /\ mqttClientRef["A"] # 0
  /\ clients["A"][mqttClientRef["A"]].role = "JOINER"
  /\ clients["A"][mqttClientRef["A"]].code = storage["A"].session.code

\* the submit of the pasted code of a manual view, the code not decoding to
\* an offer or answer descriptor
InvalidSubmit(a) ==
  /\ ManualHostConnect(a) \/ ManualJoinGenerate(a)
  /\ Submits(remoteAnswer[a]) = "invalid"

\* C10: in manual mode, submitting a pasted code that does not decode to a
\* valid descriptor sets the error message (at once, or when the rejected
\* setRemoteDescription settles) and is otherwise without effect: the view
\* and the reply code do not change and the connection the app held before
\* the attempt is left as it was
C10_InvalidCodeOnlySetsError ==
  [][\A a \in Apps :
       InvalidSubmit(a)
         => /\ tasks'[a] = tasks[a] => errorMsg'[a] \in {"Invalid Answer Code",
                                                         "Invalid Host Code"}
            /\ view'[a] = view[a]
            /\ localOffer'[a] = localOffer[a]
            /\ pcRef[a] # 0 => /\ pcRef'[a] = pcRef[a]
                               /\ pcs'[a][pcRef[a]] = pcs[a][pcRef[a]]]_vars

\* the two parts of C10 taken apart: the message of the host's Connect
\* button, and the held connection under the Generate Reply button
C10_HostMessage ==
  [][\A a \in Apps :
       ManualHostConnect(a) /\ Submits(remoteAnswer[a]) = "invalid"
                            /\ tasks'[a] = tasks[a]
         => errorMsg'[a] = "Invalid Answer Code"]_vars

C10_JoinKeepsConnection ==
  [][\A a \in Apps :
       ManualJoinGenerate(a) /\ Submits(remoteAnswer[a]) = "invalid"
                             /\ pcRef[a] # 0
         => pcs'[a][pcRef[a]] = pcs[a][pcRef[a]]]_vars

\* ---- properties of the data channel --------------------------------------
\* both channels are open and every message in flight has been delivered
Quiet == ChanOpen("A") /\ ChanOpen("B") /\ wire = [a \in Apps |-> <<>>]

Ids(a) == {strokes[a][k].id : k \in 1..Len(strokes[a])}

\* app a completed a stroke with this id while its channel was open
WasSent(a, id) ==
  \E k \in 1..Len(drawn) :
    drawn[k].op = "stroke" /\ drawn[k].by = a /\ drawn[k].id = id /\ drawn[k].sent

\* every stroke and every clearBoard so far was made with the channel open
AllSent == \A k \in 1..Len(drawn) : drawn[k].op # "ping" => drawn[k].sent

MalformedData(payload) ==
  \/ ~JSONparse(payload).ok
  \/ JSONparse(payload).val.type \notin {"SYNC_STROKE", "CLEAR_BOARD", "PING"}
  \/ /\ JSONparse(payload).val.type = "SYNC_STROKE"
     /\ JSONparse(payload).val.stroke = NoStroke

\* C8: a malformed message on the data channel (text that is not JSON, an
\* unrecognised type such as HEARTBEAT or RESET, a SYNC_STROKE without a
\* stroke) leaves the stroke list, view, status and flash unchanged, and no
\* error escapes the handler
C8_MalformedDataIgnored ==
  [][\A a \in Apps :
       \/ /\ wire[a] # <<>>
          /\ wire'[a] = Tail(wire[a])
          /\ MalformedData(Head(wire[a]))
       \/ injected' = injected + 1
       => /\ strokes' = strokes
          /\ view' = view
          /\ status' = status
          /\ flash' = flash
          /\ unhandled' = unhandled]_vars

\* messages that are not JSON or have no stroke arrived at an app that
\* holds strokes and shows the flash
C8_Witness ==
  /\ injected = MaxInject
  /\ \E a \in Apps : strokes[a] # <<>> /\ flash[a] /\ HasMsg(wire[a], "HEARTBEAT")

\* ---- properties of leaving -----------------------------------------------
\* C11: a confirmed END in the game view and the back button of a cloud
\* lobby remove both storage keys before the reload, so that after it the
\* app is in the HOME view with no stored session, no reconnect attempt, no
\* relay client and no peer connection; a declined confirmation changes
\* nothing
C11_ExitClearsAndReloads ==
  [][\A a \in Apps :
       /\ ExitGame(a, TRUE) \/ LobbyBack(a)
            => /\ storage'[a] = [session |-> NoSession, manual |-> NoManual]
               /\ view'[a] = "HOME"
               /\ ~isReconnecting'[a]
               /\ restoreTimer'[a] = NoSession
               /\ mqttClientRef'[a] = 0
               /\ \A c \in 1..Len(clients'[a]) : clients'[a][c].st = "ended"
               /\ pcRef'[a] = 0
               /\ \A i \in 1..Len(pcs'[a]) : pcs'[a][i].sig = "closed"
               /\ tasks'[a] = <<>>
               /\ inbox'[a] = <<>>
       /\ ExitGame(a, FALSE) => UNCHANGED vars]_vars

\* an app that drew in the game with a stored session has left it: it is at
\* HOME after a reload, with nothing stored and nothing held
C11_Witness ==
  /\ reloads["A"] > 0
  /\ view["A"] = "HOME"
  /\ storage["A"] = [session |-> NoSession, manual |-> NoManual]
  /\ pcRef["A"] = 0 /\ mqttClientRef["A"] = 0
  /\ \E k \in 1..Len(drawn) : drawn[k].by = "A"
  /\ view["B"] = "GAME"

\* ---- properties of the peer-link messages --------------------------------
\* every message in flight on the data channel (all are sent by the two
\* apps) is a JSON object of one of these types; a stroke is carried by
\* SYNC_STROKE and by no other type
SentTypesIn(types) ==
  \A a \in Apps : \A k \in 1..Len(wire[a]) :
    /\ JSONparse(wire[a][k]).ok
    /\ JSONparse(wire[a][k]).val.type \in types
    /\ JSONparse(wire[a][k]).val.type = "SYNC_STROKE"
         <=> JSONparse(wire[a][k]).val.stroke # NoStroke

\* C12 as stated: every message an app sends over the data channel is a
\* JSON object of type SYNC_STROKE (carrying a stroke), CLEAR_BOARD or PING
C12_OnlyThreeTypesSent == SentTypesIn({"SYNC_STROKE", "CLEAR_BOARD", "PING"})

\* C12: every message an app sends over the data channel is a JSON object
\* of type SYNC_STROKE (carrying a stroke), CLEAR_BOARD, PING or HEARTBEAT,
\* and a HEARTBEAT is sent only by an app that is in the GAME view
C12_FourTypesSent ==
  /\ SentTypesIn({"SYNC_STROKE", "CLEAR_BOARD", "PING", "HEARTBEAT"})
  /\ \A a \in Apps : HasMsg(wire[a], "HEARTBEAT") => view[Other(a)] = "GAME"

\* a HEARTBEAT is in flight
C12_Witness == \E a \in Apps : HasMsg(wire[a], "HEARTBEAT")

\* ---- properties of the relay topics --------------------------------------
\* C13: every relay client of an app (its topics are chkobba/<code>/...) is
\* created with a code of exactly 4 decimal digits, for a host and for a
\* joiner, started from the input field or from a restored session
C13_TopicCodesAreFourDigits ==
  \A a \in Apps : \A c \in 1..Len(clients[a]) : clients[a][c].code \in DecimalCodes

\* the page mounts on a stored record that is 2 hours old or older
MountStale(a) ==
  /\ reloads'[a] = reloads[a] + 1
  /\ storage[a].session.mode \in {"CLOUD", "MANUAL"}
  /\ now - storage[a].session.timestamp >= SessionMaxAge

\* the page mounts on a stored record that cannot be parsed
MountBroken(a) ==
  /\ reloads'[a] = reloads[a] + 1
  /\ storage[a].session = BrokenSession

\* C16: when the app mounts and the stored session record is 2 hours old or
\* older, or cannot be parsed, both storage keys are removed, the view is
\* HOME, the reconnecting flag is false, no handshake is scheduled and the
\* page has no relay client and no peer connection.
C16_StaleSessionNotRestored ==
  [][\A a \in Apps :
       (MountStale(a) \/ MountBroken(a))
         => /\ storage'[a].session = NoSession
            /\ storage'[a].manual = NoManual
            /\ view'[a] = "HOME"
            /\ ~isReconnecting'[a]
            /\ restoreTimer'[a] = NoSession
            /\ tasks'[a] = <<>>
            /\ clients'[a] = <<>> /\ mqttClientRef'[a] = 0
            /\ pcs'[a] = <<>> /\ pcRef'[a] = 0]_vars

\* The page has mounted on a record that had reached the age of 2 hours: the
\* record is gone (only the mount removes one here) and nothing was started.
C16_Witness ==
  /\ reloads["A"] > 0
  /\ now >= SessionMaxAge
  /\ storage["A"] = [session |-> NoSession, manual |-> NoManual]
  /\ view["A"] = "HOME" /\ ~isReconnecting["A"]
  /\ clients["A"] = <<>> /\ pcs["A"] = <<>>

\* C17: when a host restarts the handshake as a reconnection (the
\* reconnecting flag is set: restored CLOUD/HOST session, or visibility
\* reconnect), then once its relay client is connected and its local offer is
\* set it publishes 'host_back' on chkobba/<code>/restart.
C17_HostBackOnReconnect ==
  [][\A a \in Apps : \A i \in 1..Len(tasks[a]) :
       ( /\ HostOfferSet(a, i)
         /\ isReconnecting[a]
         /\ clients[a][tasks[a][i].cl].st = "connected"
         /\ pcs'[a][tasks[a][i].pc].local # NullDesc )
         => <<"restart", a>> \in published']_vars

\* C18: every offer payload the host publishes on chkobba/<code>/offer is the
\* serialization of a local description that has been set; the host never
\* publishes the JSON value null in reaction to a join.
C18_PublishedOfferIsSet ==
  [][\A a \in Apps :
       ( /\ HostOnJoin(a)
         /\ clients[a][Head(inbox[a]).cl].st = "connected" )
         => pcs[a][clients[a][Head(inbox[a]).cl].pc].local # NullDesc]_vars

\* the peer connection app a holds has connected, and no handshake was
\* started since
HeldHasConnected(a) ==
  pcRef[a] # 0 /\ pcs[a][pcRef[a]].conn \in {"connected", "disconnected"}

\* C19: when a peer connection becomes connected the app shows GAME with
\* status 'Connected', clears the reconnecting flag and ends its relay
\* client; from then on, until a handshake is started again, the app has no
\* relay client that is not ended and no relay message to react to, so a join
\* of a peer that reloaded is not answered.
C19_SignalingClosedOnceConnected ==
  /\ [][\A a \in Apps : \A i \in 1..Len(pcs[a]) :
          PcConnected(a, i)
            => /\ view'[a] = "GAME"
               /\ status'[a] = "Connected"
               /\ ~isReconnecting'[a]
               /\ mqttClientRef[a] # 0
                    => clients'[a][mqttClientRef[a]].st = "ended"]_vars
  /\ [](\A a \in Apps :
          HeldHasConnected(a)
            => /\ \A c \in 1..Len(clients[a]) : clients[a][c].st = "ended"
               /\ inbox[a] = <<>>)

\* The host is in the game on a connection that has connected, while the
\* joiner has reloaded and its new relay client has connected (and so has
\* published join again); nothing has reached the host.
C19_Witness ==
  /\ HeldHasConnected("A") /\ view["A"] = "GAME"
  /\ reloads["B"] > 0
  /\ \E c \in 1..Len(clients["B"]) : clients["B"][c].st = "connected"
  /\ inbox["A"] = <<>>
  /\ \A c \in 1..Len(clients["A"]) : clients["A"][c].st = "ended"

\* the peer connections of app a that are not closed, and its relay clients
\* that are not ended
OpenPcs(a) == {i \in 1..Len(pcs[a]) : pcs[a][i].sig # "closed"}

LiveClients(a) == {c \in 1..Len(clients[a]) : clients[a][c].st # "ended"}

\* C20: an app never has more than one peer connection that is not closed
\* (the one it holds) nor more than one relay client that is not ended (the
\* one it holds); every step that creates a peer connection closes the one
\* held before, every step that creates a relay client ends the one held
\* before; and a relay client that has been replaced, and the continuations
\* of its callbacks, do not refer to the peer connection currently held.
C20_OnePcOneClient ==
  /\ [](\A a \in Apps :
          /\ OpenPcs(a) \subseteq {pcRef[a]}
          /\ LiveClients(a) \subseteq {mqttClientRef[a]}
          /\ \A c \in 1..Len(clients[a]) :
               c # mqttClientRef[a] => clients[a][c].pc # pcRef[a]
          /\ \A i \in 1..Len(tasks[a]) :
               (tasks[a][i].cl # 0 /\ tasks[a][i].cl # mqttClientRef[a])
                 => tasks[a][i].pc # pcRef[a])
  /\ [][\A a \in Apps :
          /\ Len(pcs'[a]) > Len(pcs[a])
               => /\ pcRef'[a] = Len(pcs'[a])
                  /\ pcRef[a] # 0 => pcs'[a][pcRef[a]].sig = "closed"
          /\ Len(clients'[a]) > Len(clients[a])
               => /\ mqttClientRef'[a] = Len(clients'[a])
                  /\ mqttClientRef[a] # 0
                       => clients'[a][mqttClientRef[a]].st = "ended"]_vars

\* App A has started a handshake again: every peer connection but the one it
\* holds is closed, and every relay client but the one it holds is ended.
C20_Witness ==
  /\ Len(pcs["A"]) > 1
  /\ OpenPcs("A") = {pcRef["A"]}
  /\ Len(clients["A"]) > 1
  /\ LiveClients("A") = {mqttClientRef["A"]}

\* the last entry of the drawing history, when this step added one for app a
Did(a, op) ==
  /\ Len(drawn') = Len(drawn) + 1
  /\ drawn'[Len(drawn')].by = a
  /\ drawn'[Len(drawn')].op = op

\* C21: a message goes on the data channel only from an app whose channel is
\* open; a stroke, clear or ping made while the channel is not open sends
\* nothing, then or when the channel opens later, and yet the stroke is
\* appended to the local list and the clear empties it.
C21_NothingSentUnlessOpen ==
  [][\A a \in Apps :
       /\ Len(wire'[Other(a)]) > Len(wire[Other(a)]) => ChanOpen(a)
       /\ (\E op \in {"stroke", "clear", "ping"} : Did(a, op)) /\ ~ChanOpen(a)
            => wire' = wire
       /\ ~ChanOpen(a) /\ ChanOpen(a)' => wire' = wire
       /\ Did(a, "stroke")
            => /\ Len(strokes'[a]) = Len(strokes[a]) + 1
               /\ strokes'[a][Len(strokes'[a])].id = drawn'[Len(drawn')].id
               /\ ~strokes'[a][Len(strokes'[a])].isRemote
       /\ Did(a, "clear") => strokes'[a] = <<>>]_vars

\* An app cleared its board while its channel was not open; the channel has
\* opened since and nothing is in flight.
C21_Witness ==
  \E k \in 1..Len(drawn) :
    /\ drawn[k].op = "clear" /\ ~drawn[k].sent
    /\ ChanOpen(drawn[k].by)
    /\ wire = [a \in Apps |-> <<>>]

\* the ids of the strokes app a has completed
DrawnBy(a) ==
  {drawn[k].id : k \in {j \in 1..Len(drawn) : drawn[j].by = a /\ drawn[j].op = "stroke"}}

\* app a takes a message of this type from its channel in this step
Receives(a, type) ==
  /\ wire[a] # <<>>
  /\ wire'[a] = Tail(wire[a])
  /\ JSONparse(Head(wire[a])).ok
  /\ JSONparse(Head(wire[a])).val.type = type

\* C22: in a peer's stroke list a stroke is remote and green exactly when it
\* was received in a SYNC_STROKE, and local and blue exactly when it was
\* drawn there, whatever flags it had in the message; a completed or received
\* stroke goes to the end of the list and the others keep their places; and
\* clearBoard or a received CLEAR_BOARD empties the whole list.
C22_StrokeProvenanceAndOrder ==
  /\ [](\A a \in Apps : \A k \in 1..Len(strokes[a]) :
          LET s == strokes[a][k]
          IN \/ s.isRemote /\ s.color = RemoteColor /\ s.id \in DrawnBy(Other(a))
             \/ ~s.isRemote /\ s.color = LocalColor /\ s.id \in DrawnBy(a))
  /\ [][\A a \in Apps :
          /\ \/ strokes'[a] = strokes[a]
             \/ strokes'[a] = <<>>
             \/ /\ Len(strokes'[a]) = Len(strokes[a]) + 1
                /\ SubSeq(strokes'[a], 1, Len(strokes[a])) = strokes[a]
          /\ Receives(a, "SYNC_STROKE")
               => LET m == JSONparse(Head(wire[a])).val.stroke
                      s == strokes'[a][Len(strokes'[a])]
                  IN /\ Len(strokes'[a]) = Len(strokes[a]) + 1
                     /\ s.id = m.id /\ s.points = m.points
                     /\ s.isRemote /\ ~m.isRemote
                     /\ s.color = RemoteColor /\ m.color = LocalColor
          /\ Did(a, "stroke")
               => /\ Len(strokes'[a]) = Len(strokes[a]) + 1
                  /\ ~strokes'[a][Len(strokes'[a])].isRemote
                  /\ strokes'[a][Len(strokes'[a])].color = LocalColor
          /\ Did(a, "clear") \/ Receives(a, "CLEAR_BOARD")
               => strokes'[a] = <<>>]_vars

\* A board shows a received stroke after a stroke drawn on it, and the other
\* board shows the same two strokes in the other order.
C22_Witness ==
  \E a \in Apps :
    /\ Len(strokes[a]) = 2 /\ Len(strokes[Other(a)]) = 2
    /\ ~strokes[a][1].isRemote /\ strokes[a][2].isRemote
    /\ strokes[Other(a)][1].id = strokes[a][2].id
    /\ strokes[Other(a)][2].id = strokes[a][1].id

\* a peer connection of app a becomes connected, or a data channel of it
\* opens, in this step
ConnectsOrOpens(a) ==
  \E i \in 1..Len(pcs[a]) :
    /\ Len(pcs'[a]) = Len(pcs[a])
    /\ \/ pcs[a][i].conn # "connected" /\ pcs'[a][i].conn = "connected"
       \/ pcs[a][i].dc # "open" /\ pcs'[a][i].dc = "open"

\* app a starts a handshake as a host without a reload in this step
HostRestarts(a) ==
  /\ reloads'[a] = reloads[a]
  /\ Len(clients'[a]) = Len(clients[a]) + 1
  /\ clients'[a][Len(clients'[a])].role = "HOST"

\* C23: the view becomes GAME only in a step in which a peer connection of
\* the page connects or a data channel of it opens (never by a user action or
\* a session restore), and the view leaves GAME only by a reload or by a
\* reconnect as a host, which shows HOST_LOBBY.
C23_GameOnlyByConnecting ==
  [][\A a \in Apps :
       /\ view[a] # "GAME" /\ view'[a] = "GAME" => ConnectsOrOpens(a)
       /\ view[a] = "GAME" /\ view'[a] # "GAME"
            => \/ reloads'[a] = reloads[a] + 1 /\ view'[a] = "HOME"
               \/ HostRestarts(a) /\ view'[a] = "HOST_LOBBY"
       /\ view[a] = "GAME" /\ HostRestarts(a) => view'[a] = "HOST_LOBBY"]_vars

\* The host was in the game, its connection dropped, and on becoming visible
\* it started the handshake again: it shows HOST_LOBBY without a reload.
C23_Witness ==
  /\ reloads["A"] = 0
  /\ view["A"] = "HOST_LOBBY"
  /\ isReconnecting["A"]
  /\ Len(pcs["A"]) > 1

\* app a starts a handshake in this step: it creates a relay client
StartsHandshake(a) == Len(clients'[a]) = Len(clients[a]) + 1

\* the connection app a holds is in the connected state
HeldConnected(a) == pcRef[a] # 0 /\ pcs[a][pcRef[a]].conn = "connected"

\* C24: the visibility handler starts a handshake only when the view is GAME,
\* the held connection is not connected and storage holds a CLOUD session;
\* it then sets the reconnecting flag and connects to the relay with the
\* stored code in the stored role on a new peer connection, a joiner staying
\* in the GAME view.  In the GAME view no handshake starts while the
\* connection is connected, or while the stored session is absent or MANUAL.
C24_ReconnectWhenVisible ==
  [][\A a \in Apps :
       /\ HandleVisibilityChange(a)
            => /\ view[a] = "GAME" /\ ~HeldConnected(a)
               /\ storage[a].session.mode = "CLOUD"
               /\ isReconnecting'[a]
               /\ StartsHandshake(a)
               /\ mqttClientRef'[a] = Len(clients'[a])
               /\ clients'[a][mqttClientRef'[a]].role = storage[a].session.role
               /\ clients'[a][mqttClientRef'[a]].code = storage[a].session.code
               /\ clients'[a][mqttClientRef'[a]].pc = pcRef'[a]
               /\ pcRef'[a] = Len(pcs[a]) + 1
               /\ storage[a].session.role = "JOINER" => view'[a] = "GAME"
       /\ StartsHandshake(a) /\ view[a] = "GAME"
            => ~HeldConnected(a) /\ storage[a].session.mode = "CLOUD"
       /\ StartsHandshake(a) => view[a] = "GAME"]_vars

\* The joiner has come back to a game whose connection had dropped: it is
\* reconnecting as a joiner with its stored code, still in the GAME view.
C24_Witness ==
  /\ view["B"] = "GAME" /\ isReconnecting["B"]
  /\ Len(clients["B"]) > 1
  /\ clients["B"][mqttClientRef["B"]].role = "JOINER"
  /\ clients["B"][mqttClientRef["B"]].code = storage["B"].session.code
  /\ clients["B"][mqttClientRef["B"]].st = "connected"

\* C25: once the connection an app holds has become disconnected, the app
\* shows 'Disconnected. Trying to reconnect...' and eventually starts a new
\* handshake (a new relay client or a new peer connection) by itself.
C25_RetriedAfterDisconnect ==
  /\ [][\A a \in Apps : PcDisconnected(a, 1)
          => status'[a] = "Disconnected. Trying to reconnect..."]_vars
  /\ \A a \in Apps :
       (pcRef[a] # 0 /\ pcs[a][pcRef[a]].conn = "disconnected")
         ~> (Len(clients[a]) > 1 \/ Len(pcs[a]) > 1)

\* C26: every step of startManualJoin leaves localOffer and remoteAnswer
\* empty, so the MANUAL_JOIN view it enters shows step 1 with an empty input
\* and no reply code.
C26_ManualJoinStartsEmpty ==
  [][\A a \in Apps :
       StartManualJoin(a)
         => /\ view'[a] = "MANUAL_JOIN"
            /\ localOffer'[a] = EmptyText
            /\ remoteAnswer'[a] = EmptyText]_vars

\* C27: in a manual view the value under chkobba_manual_state is the current
\* {localOffer, remoteAnswer}; a step writes the backup only if it ends in a
\* manual view; and the back button of a manual view leaves neither
\* chkobba_session nor chkobba_manual_state in storage.
C27_ManualBackup ==
  /\ [](\A a \in Apps :
          view[a] \in ManualViews
            => storage[a].manual = [present |-> TRUE,
                                    localOffer |-> localOffer[a],
                                    remoteAnswer |-> remoteAnswer[a]])
  /\ [][\A a \in Apps :
          /\ (storage'[a].manual # storage[a].manual /\ storage'[a].manual.present)
               => view'[a] \in ManualViews
          /\ ManualBack(a)
               => /\ view'[a] = "HOME"
                  /\ storage'[a] = [session |-> NoSession, manual |-> NoManual]]_vars

\* The user went back from Manual Host with the host code shown and entered
\* Manual Join: the backup was removed by the back button and written again,
\* and it holds the texts of the page.
C27_Witness ==
  /\ view["A"] = "MANUAL_JOIN"
  /\ localOffer["A"] # EmptyText
  /\ storage["A"].session.role = "JOINER"
  /\ storage["A"].manual = [present |-> TRUE, localOffer |-> localOffer["A"],
                            remoteAnswer |-> remoteAnswer["A"]]

\* ---------------------------------------------------------------------------
\* Drawing gestures
\* ---------------------------------------------------------------------------

BoardNext ==
  \E a \in Apps :
    \/ PcConnected(a, 1) \/ ChannelOpen(a, 1)
    \/ \E readable \in BOOLEAN : StartDrawing(a, readable)
    \/ \E readable \in BOOLEAN : MoveDrawing(a, readable)
    \/ EndDrawing(a)
    \/ ClearBoard(a)
    \/ ChannelOnMessage(a)

SpecBoard == Handshaken /\ [][BoardNext]_vars

OnFetchNetworkFirst(u, method, net) ==
  LET cachedResponse == sw.cache[u]
      networkResponse == IF net = 0 THEN Undefined ELSE NetworkResponse(u, net)
      resp == IF networkResponse # Undefined THEN networkResponse
                                             ELSE cachedResponse
  IN /\ sw' = [sw EXCEPT
                 !.cache[u] = IF method = "GET" /\ Cacheable(networkResponse)
                              THEN networkResponse ELSE @,
                 !.last = [url |-> u, intercepted |-> method = "GET",
                           hit |-> cachedResponse # Undefined, net |-> net,
                           resp |-> IF method = "GET" THEN resp ELSE Undefined]]
     /\ UNCHANGED <<uiVars, rtcVars, mqttVars, storage, tasks, restoreTimer,
                    visClosure, wire, now, board, ghostVars>>

OnFetch(u, method, net) ==
  LET cachedResponse == sw.cache[u]
      networkResponse == IF net = 0 THEN Undefined ELSE NetworkResponse(u, net)
      resp == IF cachedResponse # Undefined THEN cachedResponse
                                            ELSE networkResponse
  IN /\ sw' = [sw EXCEPT
                 !.cache[u] = IF method = "GET" /\ Cacheable(networkResponse)
                              THEN networkResponse ELSE @,
                 !.last = [url |-> u, intercepted |-> method = "GET",
                           hit |-> cachedResponse # Undefined, net |-> net,
                           resp |-> IF method = "GET" THEN resp ELSE Undefined]]
     /\ UNCHANGED <<uiVars, rtcVars, mqttVars, storage, tasks, restoreTimer,
                    visClosure, wire, now, board, ghostVars>>

\* The install listener: cache.addAll(ASSETS_TO_CACHE) stores every asset or,
\* when one of the downloads fails, none (the rejection is caught and logged).
OnInstall(online) ==
  /\ sw' = [sw EXCEPT !.cache = IF online
                                THEN [u \in Urls |-> NetworkResponse(u, 200)]
                                ELSE @]
  /\ UNCHANGED <<uiVars, rtcVars, mqttVars, storage, tasks, restoreTimer,
                 visClosure, wire, now, board, ghostVars>>

\* The server publishes a new version of a resource.
Deploy(u) ==
  /\ sw.server[u] < MaxVersion
  /\ sw' = [sw EXCEPT !.server[u] = @ + 1]
  /\ UNCHANGED <<uiVars, rtcVars, mqttVars, storage, tasks, restoreTimer,
                 visClosure, wire, now, board, ghostVars>>

WorkerNext ==
  \/ \E online \in BOOLEAN : OnInstall(online)
  \/ \E u \in Urls : Deploy(u)
  \/ \E u \in Urls, method \in Methods, net \in NetOutcomes :
       OnFetch(u, method, net)

SpecWorker == Init /\ [][WorkerNext]_vars

\* C14: every intercepted GET is answered with the cached response when the
\* cache holds one, whatever the network does, and with the network response
\* when the cache holds none and the network answers; whenever the cache or
\* the network has a response, the worker's answer is a defined response.
C14_CacheFallingBackToNetwork ==
  [][\A u \in Urls, net \in NetOutcomes :
       OnFetch(u, "GET", net) =>
         /\ sw.cache[u] # Undefined => sw'.last.resp = sw.cache[u]
         /\ (sw.cache[u] = Undefined /\ net # 0) =>
              sw'.last.resp = NetworkResponse(u, net)
         /\ (sw.cache[u] # Undefined \/ net # 0) =>
              sw'.last.resp # Undefined]_vars

\* A GET answered from the cache while the network is down, with a copy older
\* than the server's.
C14_Witness ==
  /\ sw.last.intercepted /\ sw.last.hit /\ sw.last.net = 0
  /\ sw.last.resp # Undefined
  /\ sw.last.resp.body < sw.server[sw.last.url]

====
